---- MODULE Spec2Model ----
(***************************************************************************)
(* Model of the task pipeline and concurrency core of the transcriber:     *)
(* TranscriptionManager (src/src/transcription/manager.py), the            *)
(* TranscriptionTask entity (src/src/models/tasks.py) and the cancel and   *)
(* resume entry points of the terminal UI (src/src/cli.py); and of the     *)
(* data the stage processors compute: the download progress hook           *)
(* (downloader.py), the chunk manifest of AudioSplitter.split_audio         *)
(* (splitter.py), AudioTranscriber.transcribe_all_chunks and                *)
(* merge_transcripts (audio_transcriber.py), and the writes of a pass to    *)
(* its task under the task's lock, each under a specification of its own.  *)
(*                                                                         *)
(* Threads: the callers of the Manager's public operations, the worker     *)
(* threads started by _start_workers, and the thread that runs shutdown(). *)
(* One action is one atomic section of the code: a block under the Manager *)
(* lock, one operation of queue.Queue (which is atomic under the queue's   *)
(* own mutex), or one operation under a task's lock.                       *)
(***************************************************************************)
EXTENDS Integers, Sequences, FiniteSets, TLC

\* ------------------------------------------------------------------------
\* Bounds and configuration
\* ------------------------------------------------------------------------
MaxTasks == 2       \* TranscriptionTask objects created in one run
MaxCalls == 3       \* add_task / resume_task / cancel calls in one run
MaxBytes == 4       \* largest byte counter a progress event reports
MaxDuration == 5    \* longest source audio, in seconds
MaxChunkDuration == 2 \* largest CONFIG['chunk_duration_sec'] tried
MaxAudioSize == 6   \* largest size of the source audio file, in bytes
MaxChunks == 3      \* most chunks in a manifest given to merge
MaxMergeRuns == 2   \* calls of merge_transcripts on one task
MaxStarts == 2      \* calls of _start_workers on one Manager
MaxPasses == 2      \* passes over one task: the first and one resumed
MaxPassChunks == 2  \* chunks of the task that is resumed
max_workers == 2    \* CONFIG['max_workers'], run with MAX_WORKERS=2
max_queue_size == 1 \* CONFIG['max_queue_size'], run with MAX_QUEUE_SIZE=1
wide_queue_size == 3 \* CONFIG['max_queue_size'], run with MAX_QUEUE_SIZE=3
chunk_max_size_bytes == 2 \* CONFIG['chunk_max_size_bytes'], scaled down

Workers == 1..max_workers
\* the empty (or blank) URL, which download_video refuses (lines 212-213)
EmptyUrl == 0
\* URLs that match ^https?:// (cli.py line 352), as many as tasks
HttpUrls == 1..MaxTasks
Urls == {EmptyUrl} \cup HttpUrls
NoTask == 0

\* TaskStatus (models/tasks.py)
TaskStatus ==
  {"PENDING", "DOWNLOADING", "SPLITTING", "TRANSCRIBING", "MERGING",
   "COMPLETED", "FAILED", "CANCELLED", "PAUSED"}

NoError == "None"
\* the text of an error message is not modelled, only that one is set
Message == "message"

VARIABLES
  tasks,          \* Manager.tasks: the registry, a list of task ids
  task_queue,     \* Manager.task_queue: items of the bounded queue.Queue
  unfinished,     \* queue.Queue.unfinished_tasks
  lock,           \* Manager.lock: NoTask when free; t while resume_task(t)
                  \*   holds it, waiting in task_queue.put (every other
                  \*   holder releases it within one step)
  shutdown_event, \* Manager.shutdown_event
  ntasks,         \* number of TranscriptionTask objects created so far
  url,            \* TranscriptionTask.url
  status,         \* TranscriptionTask.status
  error,          \* TranscriptionTask.error
  add_pc,         \* per task: position of the add_task call that created
                  \*   it: "put" (line 81), "rollback" (line 86), "returned"
  add_result,     \* outcome of the last add_task that returned:
                  \*   "queued" (True, line 83), "exists" (False, line 74),
                  \*   "full" (False, line 88)
  ncalls,         \* calls of add_task, resume_task and cancel so far
  wpc,            \* worker: position inside _worker / _process_task
  wtask,          \* worker: the local `task`
  invoked,        \* observation only: per worker, the stage processors
                  \*   _process_task has called so far in the current pass
  ndeq,           \* observation only: per task, how many times a worker
                  \*   has dequeued it (pass k >= 2 follows a resume_task)
  spc,            \* shutdown thread: position inside shutdown()
  sidx,           \* shutdown thread: index of the worker being joined
  reported,       \* shutdown thread: what it logged for each worker
  at_shutdown,    \* observation only, read by no action: per worker,
                  \*   "mid_pass" if it was inside a pass when shutdown()
                  \*   was called, "pass_done" once it has marked that pass
                  \*   done, "idle" otherwise
  stats,          \* TranscriptionTask.stats of one task that is being
                  \*   downloaded: total_bytes, downloaded_bytes, progress
  source,         \* what split_audio finds: the duration ffprobe reports,
                  \*   the size of the audio file, chunk_duration_sec, the
                  \*   chunks ffmpeg extracts, whether the manifest file
                  \*   can be written
  chunks_info,    \* task.metadata["chunks_info"]["chunks"]
  split_returned, \* what split_audio returned: "chunks" or "None"
                  \*   ("not_called" before the call)
  transcripts,    \* the files <chunk stem>.json of the transcripts
                  \*   directory, by chunk index: NoFile or the transcript
  merge_runs,     \* what each call of merge_transcripts returned and the
                  \*   merged file it wrote (transcripts/merged/), in order
  task_metadata,  \* the entries of task.metadata and the field of
                  \*   task.transcription_metadata that merge writes
  task_lock,      \* TranscriptionTask._lock of one task: the thread that
                  \*   holds it, or "free"
  wsite,          \* the worker that processes that task: index in
                  \*   WriteSites of the next write of its pass
  ui_pc,          \* the UI thread cancelling that task: "idle", or
                  \*   "locked" inside update_status
  last_write,     \* observation only: the latest write to a field of the
                  \*   task, with the holder of task_lock at that moment
  responses,      \* what the transcription API answers for each chunk
  transcribe_pc,  \* transcribe_all_chunks: "not_called", "loop" (lines
                  \*   284-290) or "returned"
  tpos,           \* transcribe_all_chunks: position of the loop in the
                  \*   manifest list
  all_success,    \* transcribe_all_chunks: the local all_success, which
                  \*   it returns
  attempted,      \* observation only: the calls of transcribe_chunk so
                  \*   far, each with its chunk index and what it returned
  tm_word_count,  \* task.transcription_metadata.word_count
  queue_maxsize,  \* Manager.task_queue.maxsize, fixed at construction
  workers_started, \* Manager.workers_started
  nthreads,       \* len(Manager.workers): the worker threads created
  nstarts,        \* observation only: calls of _start_workers so far
  npasses,        \* observation only: the passes over the task that ended
                  \*   before the current one (it was resumed that often)
  lock_prog,      \* per thread: the operation it is running ("none"
                  \*   between two operations)
  lock_pc,        \* per thread: index of its next step in LockSteps of
                  \*   that operation
  lock_owner      \* per lock (Manager.lock, TranscriptionTask._lock): the
                  \*   thread that holds it, or "free"

vars == <<tasks, task_queue, unfinished, lock, shutdown_event, ntasks, url,
          status, error, add_pc, add_result, ncalls, wpc, wtask, invoked,
          ndeq, spc, sidx, reported, at_shutdown, stats, source, chunks_info,
          split_returned, transcripts, merge_runs, task_metadata,
          task_lock, wsite, ui_pc, last_write, responses, transcribe_pc,
          tpos, all_success, attempted, tm_word_count, queue_maxsize,
          workers_started, nthreads, nstarts, npasses, lock_prog, lock_pc,
          lock_owner>>

mgrVars == <<tasks, task_queue, unfinished, lock, shutdown_event>>
taskVars == <<ntasks, url, status, error>>
callerVars == <<add_pc, add_result>>
workerVars == <<wpc, wtask, invoked>>
shutdownVars == <<spc, sidx, reported, at_shutdown>>
\* the Manager, its tasks and its threads
\* the configuration the Manager was built with, which no action changes
configVars == <<queue_maxsize>>
\* the worker pool, which only _start_workers changes
startVars == <<workers_started, nthreads, nstarts>>
\* the passes a task has been through, which only a resumed pass changes
passVars == <<npasses>>
\* the threads' positions in their lock operations
nestVars == <<lock_prog, lock_pc, lock_owner>>
managerVars == <<mgrVars, taskVars, callerVars, ncalls, workerVars, ndeq,
                 shutdownVars, configVars, startVars>>
pipelineVars == <<managerVars, passVars, nestVars>>
\* the data the stage processors work on
splitVars == <<source, chunks_info, split_returned>>
mergeVars == <<transcripts, merge_runs, task_metadata>>
lockVars == <<task_lock, wsite, ui_pc, last_write>>
transcribeVars == <<responses, transcribe_pc, tpos, all_success, attempted,
                    tm_word_count>>
stageVars == <<stats, splitVars, mergeVars, lockVars, transcribeVars,
               configVars, startVars, passVars, nestVars>>

\* ------------------------------------------------------------------------
\* TranscriptionTask
\* ------------------------------------------------------------------------
Created == 1..ntasks

\* TranscriptionTask.update_status: unconditional write under the task lock
update_status(st, t, s) == [st EXCEPT ![t] = s]

\* TranscriptionTask.set_error
set_error(er, t, msg) == [er EXCEPT ![t] = msg]

\* mutation of can_resume: every status but COMPLETED counts as resumable
can_resume_not_completed(st, t) == st[t] # "COMPLETED"

\* TranscriptionTask.can_resume
can_resume(st, t) == st[t] \in {"FAILED", "CANCELLED", "PAUSED"}

\* ------------------------------------------------------------------------
\* queue.Queue and list helpers
\* ------------------------------------------------------------------------
Range(s) == {s[i] : i \in 1..Len(s)}

\* queue.Queue.full(): 0 < maxsize <= qsize
queue_full(q) == Len(q) >= queue_maxsize

\* mutation of list_remove: the last element is removed (tasks.pop())
list_remove_last(s, x) == SubSeq(s, 1, Len(s) - 1)

\* list.remove(x): removes the first occurrence of x
RECURSIVE list_remove(_, _)
list_remove(s, x) ==
  IF s = <<>> THEN <<>>
  ELSE IF Head(s) = x THEN Tail(s)
  ELSE <<Head(s)>> \o list_remove(Tail(s), x)

\* mutation of url_exists: only the queued tasks are compared
url_exists_queued(u) == \E i \in 1..Len(task_queue) : url[task_queue[i]] = u

\* any(task.url == url for task in self.tasks)
url_exists(u) == \E i \in 1..Len(tasks) : url[tasks[i]] = u

\* the positions of _worker between get() returning and task_done()
PassPcs == {"start", "download", "split", "transcribe", "merge",
            "set_failed", "task_done"}

\* the positions of _worker inside a stage processor, in pipeline order:
\* download_video, split_audio, transcribe_all_chunks, merge_transcripts
Pipeline == <<"download", "split", "transcribe", "merge">>

\* The keys of task.metadata, and the audio path task.temp_video_path, that
\* a stage processor reads from what earlier stages left in the task:
\* splitter.py lines 81-82; audio_transcriber.py lines 267 and 271
\* (transcribe_chunk reads transcripts_dir, line 170, after line 281 of the
\* same stage has written it); audio_transcriber.py lines 311 and 322
stage_reads(stage) ==
  CASE stage = "download" -> {}
    [] stage = "split" -> {"video_dir", "temp_video_path"}
    [] stage = "transcribe" -> {"chunks_info"}
    [] stage = "merge" -> {"transcripts_dir", "chunks_info"}

\* transcripts_dir set by merge_transcripts, not by transcribe_all_chunks
stage_writes_late(stage) ==
  CASE stage = "download" -> {"video_dir", "video_metadata", "temp_video_path"}
    [] stage = "split" -> {"chunks_dir", "chunks_info"}
    [] stage = "transcribe" -> {}
    [] stage = "merge" -> {"transcripts_dir", "merged_transcript_text",
                           "total_words", "total_duration"}

\* what a stage processor that returns success has written: downloader.py
\* lines 168, 228 and 288; splitter.py lines 87 and 195;
\* audio_transcriber.py line 281; audio_transcriber.py lines 415-421
stage_writes(stage) ==
  CASE stage = "download" -> {"video_dir", "video_metadata", "temp_video_path"}
    [] stage = "split" -> {"chunks_dir", "chunks_info"}
    [] stage = "transcribe" -> {"transcripts_dir"}
    [] stage = "merge" -> {"merged_transcript_text", "total_words",
                           "total_duration"}
StagePcs == {Pipeline[i] : i \in 1..Len(Pipeline)}

\* the positions of _worker inside _process_task
ProcessPcs == {"download", "split", "transcribe", "merge", "set_failed"}

\* ------------------------------------------------------------------------
\* Initial state: after TranscriptionManager.__init__ (workers started)
\* ------------------------------------------------------------------------
\* TaskStats.__init__ (models/tasks.py lines 24-27); progress is kept as the
\* exact quotient num / den
NewStats ==
  [total_bytes |-> 0, downloaded_bytes |-> 0,
   progress |-> [num |-> 0, den |-> 1]]

\* ffprobe failed: get_audio_duration returns None (splitter.py line 67)
NoDuration == -1

\* a source audio of one second
OneSecond ==
  [total_duration |-> 1, st_size |-> 1, chunk_duration_sec |-> 1,
   ffmpeg_ok |-> {0}, writable |-> TRUE]

\* json_path.exists() is False (audio_transcriber.py line 339)
NoFile == [exists |-> FALSE, text |-> <<>>, segments |-> <<>>]
NoPath == "None"

\* task.metadata has no 'total_words' and 'total_duration' yet
\* (TranscriptionTask.__init__, line 49), merged_transcript_path is None
\* (TranscriptionMetadata.__init__, line 37)
NewMetadata ==
  [total_words |-> 0, total_duration |-> 0, merged_transcript_path |-> NoPath,
   error |-> NoError]

\* the threads that take locks: a worker (manager.py line 54), the UI
\* thread that runs the commands (cli.py lines 84-92, 327-353) and a
\* thread that reads the task list through get_tasks (manager.py line 200)
LockThreads == {"worker", "ui", "reader"}

\* Manager.lock (manager.py line 36) and the _lock of one task (tasks.py
\* line 53)
Locks == {"manager", "task"}

\* no write to the task since TranscriptionTask.__init__
NoWrite == [by |-> "none", field |-> "none", line |-> 0, holder |-> "none"]

\* the task's lock is free (tasks.py line 53) and its pass has not begun
LockIdle ==
  /\ task_lock = "free"
  /\ wsite = 1
  /\ ui_pc = "idle"
  /\ last_write = NoWrite
  /\ lock_prog = [th \in LockThreads |-> "none"]
  /\ lock_pc = [th \in LockThreads |-> 0]
  /\ lock_owner = [l \in Locks |-> "free"]

\* no request has been answered
NoResponse == [status |-> 0, text |-> <<>>]

\* transcribe_all_chunks has not been called; word_count is 0
\* (TranscriptionMetadata.__init__, line 36)
TranscribeIdle ==
  /\ transcribe_pc = "not_called"
  /\ tpos = 0
  /\ all_success = TRUE
  /\ attempted = <<>>
  /\ tm_word_count = 0
  /\ npasses = 0

\* no stage processor has run yet
StageIdle ==
  /\ LockIdle
  /\ TranscribeIdle
  /\ responses = [k \in 0..(MaxChunks - 1) |-> NoResponse]
  /\ stats = NewStats
  /\ source = OneSecond
  /\ chunks_info = <<>>
  /\ split_returned = "not_called"
  /\ transcripts = [k \in 0..(MaxChunks - 1) |-> NoFile]
  /\ merge_runs = <<>>
  /\ task_metadata = NewMetadata

\* manager.py lines 32-37: the fields __init__ sets before it starts the
\* workers
ManagerFields ==
  /\ tasks = <<>>
  /\ task_queue = <<>>
  /\ unfinished = 0
  /\ lock = NoTask
  /\ shutdown_event = FALSE
  /\ ntasks = 0
  /\ url = <<>>
  /\ status = <<>>
  /\ error = <<>>
  /\ add_pc = <<>>
  /\ add_result = "none"
  /\ ncalls = 0
  /\ wtask = [w \in Workers |-> NoTask]
  /\ invoked = [w \in Workers |-> <<>>]
  /\ ndeq = <<>>
  /\ spc = "idle"
  /\ sidx = 0
  /\ reported = [w \in Workers |-> "none"]
  /\ at_shutdown = [w \in Workers |-> "idle"]

\* after __init__: its call of _start_workers (line 44) has started the
\* worker threads
ManagerInit ==
  /\ ManagerFields
  /\ wpc = [w \in Workers |-> "check"]
  /\ workers_started = TRUE
  /\ nthreads = max_workers
  /\ nstarts = 1

Init == ManagerInit /\ queue_maxsize = max_queue_size /\ StageIdle

\* ------------------------------------------------------------------------
\* TranscriptionManager._start_workers
\* ------------------------------------------------------------------------
\* a start that does not look at workers_started
start_workers_again ==
  /\ lock = NoTask
  /\ nstarts < MaxStarts
  /\ nstarts' = nstarts + 1
  /\ wpc' = [w \in Workers |-> IF wpc[w] = "not_started" THEN "check"
                                                         ELSE wpc[w]]
  /\ nthreads' = nthreads + max_workers
  /\ workers_started' = TRUE
  /\ UNCHANGED <<mgrVars, taskVars, callerVars, ncalls, wtask, invoked, ndeq,
                 shutdownVars, configVars, stats, splitVars, mergeVars,
                 lockVars, transcribeVars, passVars, nestVars>>

\* lines 48-59, all under the Manager lock: nothing when workers_started is
\* set; otherwise max_workers threads are created and started, and the
\* flag is set
start_workers ==
  /\ lock = NoTask
  /\ nstarts < MaxStarts
  /\ nstarts' = nstarts + 1
  /\ IF workers_started
       THEN UNCHANGED <<wpc, nthreads, workers_started>>
       ELSE /\ wpc' = [w \in Workers |-> "check"]
            /\ nthreads' = nthreads + max_workers
            /\ workers_started' = TRUE
  /\ UNCHANGED <<mgrVars, taskVars, callerVars, ncalls, wtask, invoked, ndeq,
                 shutdownVars, configVars, stats, splitVars, mergeVars,
                 lockVars, transcribeVars, passVars, nestVars>>

\* ------------------------------------------------------------------------
\* TranscriptionManager.add_task
\* ------------------------------------------------------------------------
\* lines 71-78: duplicate check and registry append under the Manager lock
add_task_locked(u) ==
  /\ lock = NoTask
  /\ ncalls < MaxCalls
  /\ ncalls' = ncalls + 1
  /\ \/ /\ url_exists(u)
        /\ add_result' = "exists"
        /\ UNCHANGED <<tasks, add_pc, taskVars, ndeq>>
     \/ /\ ~url_exists(u)
        /\ ntasks < MaxTasks
        /\ ntasks' = ntasks + 1
        /\ url' = Append(url, u)
        /\ status' = Append(status, "PENDING")
        /\ error' = Append(error, NoError)
        /\ tasks' = Append(tasks, ntasks + 1)
        /\ add_pc' = Append(add_pc, "put")
        /\ ndeq' = Append(ndeq, 0)
        /\ UNCHANGED add_result
  /\ UNCHANGED <<task_queue, unfinished, lock, shutdown_event,
                 workerVars, shutdownVars>>
  /\ UNCHANGED stageVars

\* lines 80-85: task_queue.put(task, block=False)
add_task_put(t) ==
  /\ add_pc[t] = "put"
  /\ IF ~queue_full(task_queue)
       THEN /\ task_queue' = Append(task_queue, t)
            /\ unfinished' = unfinished + 1
            /\ add_result' = "queued"
            /\ add_pc' = [add_pc EXCEPT ![t] = "returned"]
       ELSE /\ add_pc' = [add_pc EXCEPT ![t] = "rollback"]
            /\ UNCHANGED <<task_queue, unfinished, add_result>>
  /\ UNCHANGED <<tasks, lock, shutdown_event, taskVars, ncalls,
                 workerVars, ndeq, shutdownVars>>
  /\ UNCHANGED stageVars

\* lines 86-88: roll the task back out of the registry
add_task_rollback(t) ==
  /\ add_pc[t] = "rollback"
  /\ lock = NoTask
  /\ tasks' = list_remove(tasks, t)
  /\ add_result' = "full"
  /\ add_pc' = [add_pc EXCEPT ![t] = "returned"]
  /\ UNCHANGED <<task_queue, unfinished, lock, shutdown_event, taskVars,
                 ncalls, workerVars, ndeq, shutdownVars>>
  /\ UNCHANGED stageVars

\* ------------------------------------------------------------------------
\* TranscriptionManager.resume_task
\* ------------------------------------------------------------------------
\* lines 173-179; task_queue.put(task) blocks, with the Manager lock held,
\* while the queue is full
resume_task(t) ==
  /\ lock = NoTask
  /\ t \in Range(tasks)
  /\ ncalls < MaxCalls
  /\ ncalls' = ncalls + 1
  /\ IF can_resume(status, t)
       THEN /\ status' = update_status(status, t, "PENDING")
            /\ IF ~queue_full(task_queue)
                 THEN /\ task_queue' = Append(task_queue, t)
                      /\ unfinished' = unfinished + 1
                      /\ UNCHANGED lock
                 ELSE /\ lock' = t
                      /\ UNCHANGED <<task_queue, unfinished>>
       ELSE UNCHANGED <<status, task_queue, unfinished, lock>>
  /\ UNCHANGED <<tasks, shutdown_event, ntasks, url, error, callerVars,
                 workerVars, ndeq, shutdownVars>>
  /\ UNCHANGED stageVars

\* line 176 completing once the queue has room; the lock is released
resume_task_put ==
  /\ lock # NoTask
  /\ ~queue_full(task_queue)
  /\ task_queue' = Append(task_queue, lock)
  /\ unfinished' = unfinished + 1
  /\ lock' = NoTask
  /\ UNCHANGED <<tasks, shutdown_event, taskVars, callerVars, ncalls,
                 workerVars, ndeq, shutdownVars>>
  /\ UNCHANGED stageVars

\* ------------------------------------------------------------------------
\* Cancel (cli.py: Ctrl+S and the `cancel` command)
\* ------------------------------------------------------------------------
\* a cancel that also drops the task from the registry
cancel_and_forget(t) ==
  /\ t \in Range(tasks)
  /\ ncalls < MaxCalls
  /\ ncalls' = ncalls + 1
  /\ status' = update_status(status, t, "CANCELLED")
  /\ tasks' = list_remove(tasks, t)
  /\ UNCHANGED <<task_queue, unfinished, lock, shutdown_event, ntasks, url,
                 error, callerVars, workerVars, ndeq, shutdownVars>>
  /\ UNCHANGED stageVars

\* cli.py lines 80-85 and 319-332: task.update_status(CANCELLED)
cancel(t) ==
  /\ t \in Range(tasks)
  /\ ncalls < MaxCalls
  /\ ncalls' = ncalls + 1
  /\ status' = update_status(status, t, "CANCELLED")
  /\ UNCHANGED <<mgrVars, ntasks, url, error, callerVars,
                 workerVars, ndeq, shutdownVars>>
  /\ UNCHANGED stageVars

\* ------------------------------------------------------------------------
\* TranscriptionManager._worker
\* ------------------------------------------------------------------------
\* line 92: while not self.shutdown_event.is_set()
worker_check(w) ==
  /\ wpc[w] = "check"
  /\ wpc' = [wpc EXCEPT ![w] = IF shutdown_event THEN "done" ELSE "get"]
  /\ UNCHANGED <<mgrVars, taskVars, callerVars, ncalls, wtask, invoked,
                 ndeq, shutdownVars>>
  /\ UNCHANGED stageVars

\* a queue that hands out its newest item (queue.LifoQueue)
worker_get_newest(w) ==
  /\ wpc[w] = "get"
  /\ task_queue # <<>>
  /\ wtask' = [wtask EXCEPT ![w] = task_queue[Len(task_queue)]]
  /\ task_queue' = SubSeq(task_queue, 1, Len(task_queue) - 1)
  /\ wpc' = [wpc EXCEPT ![w] = "start"]
  /\ invoked' = [invoked EXCEPT ![w] = <<>>]
  /\ ndeq' = [ndeq EXCEPT ![task_queue[Len(task_queue)]] = @ + 1]
  /\ UNCHANGED <<tasks, unfinished, lock, shutdown_event, taskVars,
                 callerVars, ncalls, shutdownVars>>
  /\ UNCHANGED stageVars

\* line 94: task_queue.get(timeout=1) returning an item
worker_get(w) ==
  /\ wpc[w] = "get"
  /\ task_queue # <<>>
  /\ wtask' = [wtask EXCEPT ![w] = Head(task_queue)]
  /\ task_queue' = Tail(task_queue)
  /\ wpc' = [wpc EXCEPT ![w] = "start"]
  /\ invoked' = [invoked EXCEPT ![w] = <<>>]
  /\ ndeq' = [ndeq EXCEPT ![Head(task_queue)] = @ + 1]
  /\ UNCHANGED <<tasks, unfinished, lock, shutdown_event, taskVars,
                 callerVars, ncalls, shutdownVars>>
  /\ UNCHANGED stageVars

\* mutation of worker_timeout: queue.Empty ends the loop (break where the
\* code has continue)
worker_timeout_exits(w) ==
  /\ wpc[w] = "get"
  /\ task_queue = <<>>
  /\ wpc' = [wpc EXCEPT ![w] = "done"]
  /\ UNCHANGED <<mgrVars, taskVars, callerVars, ncalls, wtask, invoked,
                 ndeq, shutdownVars>>
  /\ UNCHANGED stageVars

\* lines 105-106: queue.Empty after the timeout
worker_timeout(w) ==
  /\ wpc[w] = "get"
  /\ task_queue = <<>>
  /\ wpc' = [wpc EXCEPT ![w] = "check"]
  /\ UNCHANGED <<mgrVars, taskVars, callerVars, ncalls, wtask, invoked,
                 ndeq, shutdownVars>>
  /\ UNCHANGED stageVars

\* task_done() called after a successful pass only, not in a finally
worker_task_done_on_success(w) ==
  /\ wpc[w] = "task_done"
  /\ unfinished' = IF status[wtask[w]] = "COMPLETED"
                     THEN unfinished - 1 ELSE unfinished
  /\ wtask' = [wtask EXCEPT ![w] = NoTask]
  /\ wpc' = [wpc EXCEPT ![w] = "check"]
  /\ invoked' = [invoked EXCEPT ![w] = <<>>]
  /\ at_shutdown' = [at_shutdown EXCEPT ![w] =
                       IF @ = "mid_pass" THEN "pass_done" ELSE @]
  /\ UNCHANGED <<tasks, task_queue, lock, shutdown_event, taskVars,
                 callerVars, ncalls, ndeq, spc, sidx, reported>>
  /\ UNCHANGED stageVars

\* lines 102-104: finally: task_queue.task_done()
worker_task_done(w) ==
  /\ wpc[w] = "task_done"
  /\ unfinished' = unfinished - 1
  /\ wtask' = [wtask EXCEPT ![w] = NoTask]
  /\ wpc' = [wpc EXCEPT ![w] = "check"]
  /\ invoked' = [invoked EXCEPT ![w] = <<>>]
  /\ at_shutdown' = [at_shutdown EXCEPT ![w] =
                       IF @ = "mid_pass" THEN "pass_done" ELSE @]
  /\ UNCHANGED <<tasks, task_queue, lock, shutdown_event, taskVars,
                 callerVars, ncalls, ndeq, spc, sidx, reported>>
  /\ UNCHANGED stageVars

\* ------------------------------------------------------------------------
\* TranscriptionManager._process_task
\* ------------------------------------------------------------------------
\* mutation of stage_failed: FAILED is written where the error should be,
\* and the error message is never set
stage_failed_status_first(w, msg) ==
  /\ status' = update_status(status, wtask[w], "FAILED")
  /\ wpc' = [wpc EXCEPT ![w] = "set_failed"]
  /\ UNCHANGED <<error, invoked>>

\* a stage reported failure, or raised (lines 165-169): task.set_error(...),
\* line 119/131/143/154/168
stage_failed(w, msg) ==
  /\ error' = set_error(error, wtask[w], msg)
  /\ wpc' = [wpc EXCEPT ![w] = "set_failed"]
  /\ UNCHANGED <<status, invoked>>

\* a stage reported success: the next status write, then the call of the
\* next stage processor (none after merge)
stage_succeeded(w, nextStatus, nextPc) ==
  /\ status' = update_status(status, wtask[w], nextStatus)
  /\ wpc' = [wpc EXCEPT ![w] = nextPc]
  /\ invoked' = [invoked EXCEPT ![w] =
                   IF nextPc \in StagePcs THEN Append(@, nextPc) ELSE @]
  /\ UNCHANGED error

\* mutation of process_task_start: a task that has its audio from an earlier
\* pass (its error is set) restarts at the splitter
process_task_start_after_download(w) ==
  /\ wpc[w] = "start"
  /\ IF error[wtask[w]] # NoError
       THEN /\ status' = update_status(status, wtask[w], "SPLITTING")
            /\ wpc' = [wpc EXCEPT ![w] = "split"]
            /\ invoked' = [invoked EXCEPT ![w] = Append(@, "split")]
       ELSE /\ status' = update_status(status, wtask[w], "DOWNLOADING")
            /\ wpc' = [wpc EXCEPT ![w] = "download"]
            /\ invoked' = [invoked EXCEPT ![w] = Append(@, "download")]
  /\ UNCHANGED <<mgrVars, ntasks, url, error, callerVars, ncalls, wtask,
                 ndeq, shutdownVars>>
  /\ UNCHANGED stageVars

\* line 114: task.update_status(DOWNLOADING), download starts
process_task_start(w) ==
  /\ wpc[w] = "start"
  /\ status' = update_status(status, wtask[w], "DOWNLOADING")
  /\ wpc' = [wpc EXCEPT ![w] = "download"]
  /\ invoked' = [invoked EXCEPT ![w] = Append(@, "download")]
  /\ UNCHANGED <<mgrVars, ntasks, url, error, callerVars, ncalls, wtask,
                 ndeq, shutdownVars>>
  /\ UNCHANGED stageVars

\* mutation of download_video: after the download the splitter is skipped
download_video_skips_split(w, success) ==
  /\ wpc[w] = "download"
  /\ success => url[wtask[w]] # EmptyUrl
  /\ IF success
       THEN stage_succeeded(w, "TRANSCRIBING", "transcribe")
       ELSE stage_failed(w, Message)
  /\ UNCHANGED <<mgrVars, ntasks, url, callerVars, ncalls, wtask, ndeq,
                 shutdownVars>>
  /\ UNCHANGED stageVars

\* lines 117-127: download_video returns; for an empty or blank URL it
\* returns (False, "Invalid or empty URL") (downloader.py lines 212-213)
download_video(w, success) ==
  /\ wpc[w] = "download"
  /\ success => url[wtask[w]] # EmptyUrl
  /\ IF success
       THEN stage_succeeded(w, "SPLITTING", "split")
       ELSE stage_failed(w, Message)
  /\ UNCHANGED <<mgrVars, ntasks, url, callerVars, ncalls, wtask, ndeq,
                 shutdownVars>>
  /\ UNCHANGED stageVars

\* lines 128-139: split_audio returns
split_audio(w, success) ==
  /\ wpc[w] = "split"
  /\ IF success
       THEN stage_succeeded(w, "TRANSCRIBING", "transcribe")
       ELSE stage_failed(w, Message)
  /\ UNCHANGED <<mgrVars, ntasks, url, callerVars, ncalls, wtask, ndeq,
                 shutdownVars>>
  /\ UNCHANGED stageVars

\* lines 140-148: transcribe_all_chunks returns
transcribe_all_chunks(w, success) ==
  /\ wpc[w] = "transcribe"
  /\ IF success
       THEN /\ wpc' = [wpc EXCEPT ![w] = "merge"]
            /\ invoked' = [invoked EXCEPT ![w] = Append(@, "merge")]
            /\ UNCHANGED <<status, error>>
       ELSE stage_failed(w, Message)
  /\ UNCHANGED <<mgrVars, ntasks, url, callerVars, ncalls, wtask, ndeq,
                 shutdownVars>>
  /\ UNCHANGED stageVars

\* lines 151-163: merge_transcripts returns
merge_transcripts(w, success) ==
  /\ wpc[w] = "merge"
  /\ IF success
       THEN stage_succeeded(w, "COMPLETED", "task_done")
       ELSE stage_failed(w, Message)
  /\ UNCHANGED <<mgrVars, ntasks, url, callerVars, ncalls, wtask, ndeq,
                 shutdownVars>>
  /\ UNCHANGED stageVars

\* the exception of a failed stage ending the worker thread: no FAILED
\* write, no task_done(), no further loop iteration
process_task_raises(w) ==
  /\ wpc[w] = "set_failed"
  /\ wpc' = [wpc EXCEPT ![w] = "done"]
  /\ UNCHANGED <<mgrVars, taskVars, callerVars, ncalls, wtask,
                 invoked, ndeq, shutdownVars>>
  /\ UNCHANGED stageVars

\* lines 120/132/144/155/169: task.update_status(FAILED); return
process_task_failed(w) ==
  /\ wpc[w] = "set_failed"
  /\ status' = update_status(status, wtask[w], "FAILED")
  /\ wpc' = [wpc EXCEPT ![w] = "task_done"]
  /\ UNCHANGED <<mgrVars, ntasks, url, error, callerVars, ncalls, wtask,
                 invoked, ndeq, shutdownVars>>
  /\ UNCHANGED stageVars

\* ------------------------------------------------------------------------
\* TranscriptionManager.shutdown
\* ------------------------------------------------------------------------
\* line 184: self.shutdown_event.set()
shutdown_set ==
  /\ spc = "idle"
  /\ shutdown_event' = TRUE
  /\ spc' = "queue_join"
  /\ at_shutdown' = [w \in Workers |->
                       IF wpc[w] \in PassPcs THEN "mid_pass" ELSE "idle"]
  /\ UNCHANGED <<tasks, task_queue, unfinished, lock, taskVars, callerVars,
                 ncalls, workerVars, ndeq, sidx, reported>>
  /\ UNCHANGED stageVars

\* mutation of shutdown_queue_join: task_queue.join() is not waited for
shutdown_no_queue_join ==
  /\ spc = "queue_join"
  /\ spc' = "join_workers"
  /\ sidx' = 1
  /\ UNCHANGED <<mgrVars, taskVars, callerVars, ncalls, workerVars, ndeq,
                 reported, at_shutdown>>
  /\ UNCHANGED stageVars

\* line 187: task_queue.join() returns once unfinished_tasks is 0
shutdown_queue_join ==
  /\ spc = "queue_join"
  /\ unfinished = 0
  /\ spc' = "join_workers"
  /\ sidx' = 1
  /\ UNCHANGED <<mgrVars, taskVars, callerVars, ncalls, workerVars, ndeq,
                 reported, at_shutdown>>
  /\ UNCHANGED stageVars

\* lines 191-198: worker.join(timeout=2); is_alive() decides the log line
shutdown_join_worker ==
  /\ spc = "join_workers"
  /\ reported' = [reported EXCEPT ![sidx] =
                    IF wpc[sidx] = "done" THEN "terminated" ELSE "alive"]
  /\ IF sidx = max_workers
       THEN spc' = "returned" /\ sidx' = 0
       ELSE spc' = spc /\ sidx' = sidx + 1
  /\ UNCHANGED <<mgrVars, taskVars, callerVars, ncalls, workerVars, ndeq,
                 at_shutdown>>
  /\ UNCHANGED stageVars

\* ------------------------------------------------------------------------
\* Specification
\* ------------------------------------------------------------------------
\* the threads that call add_task (with a well-formed URL), resume_task and
\* cancel
CallerStep ==
  \/ \E u \in HttpUrls : add_task_locked(u)
  \/ \E t \in Created : add_task_put(t)
  \/ \E t \in Created : add_task_rollback(t)
  \/ \E t \in Created : resume_task(t)
  \/ resume_task_put
  \/ \E t \in Created : cancel(t)

WorkerStep(w) ==
  \/ worker_check(w)
  \/ worker_get(w)
  \/ worker_timeout(w)
  \/ process_task_start(w)
  \/ \E ok \in BOOLEAN : download_video(w, ok)
  \/ \E ok \in BOOLEAN : split_audio(w, ok)
  \/ \E ok \in BOOLEAN : transcribe_all_chunks(w, ok)
  \/ \E ok \in BOOLEAN : merge_transcripts(w, ok)
  \/ process_task_failed(w)
  \/ worker_task_done(w)

ShutdownStep ==
  \/ shutdown_set
  \/ shutdown_queue_join
  \/ shutdown_join_worker

Next ==
  \/ CallerStep
  \/ \E w \in Workers : WorkerStep(w)
  \/ ShutdownStep

Spec == Init /\ [][Next]_vars

\* Threads are scheduled fairly: every worker and the shutdown thread keep
\* taking steps while they can.  Callers are the environment.
FairSpec ==
  /\ Spec
  /\ \A w \in Workers : WF_vars(WorkerStep(w))
  /\ WF_vars(ShutdownStep)

\* The Manager while it is not being shut down: any number of threads call
\* add_task, resume_task and cancel concurrently with the workers.
\* As FairSpec, and a call that has begun goes on: the put of add_task is
\* made and its result handled, and a put of resume_task that waits for
\* queue space is made once there is space.  Which calls are made, and
\* when, is up to the environment.
FairCallSpec ==
  /\ FairSpec
  /\ WF_vars(\E t \in Created : add_task_put(t) \/ add_task_rollback(t))
  /\ WF_vars(resume_task_put)

ApiNext ==
  \/ CallerStep
  \/ \E w \in Workers : WorkerStep(w)

ApiSpec == Init /\ [][ApiNext]_vars

\* The Manager without shutdown(), its worker threads scheduled fairly:
\* each worker keeps taking steps, and every stage call returns (a stage
\* is one step).  Callers are the environment.
FairApiSpec ==
  /\ ApiSpec
  /\ \A w \in Workers : WF_vars(WorkerStep(w))

\* The same, with callers that pass any string to add_task, the empty one
\* included: add_task itself is public and takes `url: str`.
AnyUrlNext ==
  \/ \E u \in Urls : add_task_locked(u)
  \/ ApiNext

AnyUrlSpec == Init /\ [][AnyUrlNext]_vars

\* The Manager built with a queue wide enough for every put of the run to
\* find room: several tasks wait in the queue at once.  No put raises
\* queue.Full and resume_task never waits, so the rollback of add_task and
\* the completion of a waiting put have no step here.
FifoInit == ManagerInit /\ queue_maxsize = wide_queue_size /\ StageIdle

FifoNext ==
  \/ \E u \in HttpUrls : add_task_locked(u)
  \/ \E t \in Created : add_task_put(t)
  \/ \E t \in Created : resume_task(t)
  \/ \E t \in Created : cancel(t)
  \/ \E w \in Workers : WorkerStep(w)

FifoSpec == FifoInit /\ [][FifoNext]_vars

\* The Manager from line 44 of __init__ on: the constructor's call of
\* _start_workers, further calls of it from any thread, and, once the
\* constructor has returned, the public operations and the workers.
StartInit ==
  /\ ManagerFields
  /\ wpc = [w \in Workers |-> "not_started"]
  /\ workers_started = FALSE
  /\ nthreads = 0
  /\ nstarts = 0
  /\ queue_maxsize = max_queue_size
  /\ StageIdle

StartNext ==
  \/ start_workers
  \/ workers_started /\ ApiNext

StartSpec == StartInit /\ [][StartNext]_vars

\* The program as cli.py drives it: one UI thread makes the add_task,
\* resume_task and cancel calls one after the other, and run() calls
\* shutdown() from that thread once the UI loop has ended (lines 411-426):
\* no call is in flight when shutdown() starts and none follows.  The UI
\* passes only input that matches ^https?:// to add_task (line 352).
NoCallInFlight ==
  /\ lock = NoTask
  /\ \A t \in Created : add_pc[t] = "returned"

CliStep ==
  \/ spc = "idle" /\ NoCallInFlight /\ \E u \in HttpUrls : add_task_locked(u)
  \/ spc = "idle" /\ NoCallInFlight /\ \E t \in Created : resume_task(t)
  \/ spc = "idle" /\ NoCallInFlight /\ \E t \in Created : cancel(t)
  \/ spc = "idle" /\ ~NoCallInFlight /\ \E t \in Created : add_task_put(t)
  \/ spc = "idle" /\ ~NoCallInFlight /\ \E t \in Created : add_task_rollback(t)
  \/ spc = "idle" /\ ~NoCallInFlight /\ resume_task_put
  \/ NoCallInFlight /\ shutdown_set
  \/ shutdown_queue_join
  \/ shutdown_join_worker

CliNext ==
  \/ CliStep
  \/ \E w \in Workers : WorkerStep(w)

CliSpec ==
  /\ Init /\ [][CliNext]_vars
  /\ \A w \in Workers : WF_vars(WorkerStep(w))
  /\ WF_vars(shutdown_queue_join \/ shutdown_join_worker)

\* ------------------------------------------------------------------------
\* VideoDownloader: the progress hook yt-dlp calls during a download
\* ------------------------------------------------------------------------
\* downloader.py lines 71-90, d['status'] == 'downloading': the counters are
\* stored as reported (yt-dlp's total is an estimate and may be 0 or below
\* the downloaded count); progress is written only when total > 0
progress_hook_downloading(total, downloaded) ==
  /\ stats' = [total_bytes |-> total,
               downloaded_bytes |-> downloaded,
               progress |-> IF total > 0
                              THEN [num |-> downloaded * 100, den |-> total]
                              ELSE stats.progress]
  /\ UNCHANGED <<pipelineVars, splitVars, mergeVars, lockVars,
                 transcribeVars>>

\* downloader.py lines 92-94, d['status'] == 'finished'
progress_hook_finished ==
  /\ stats' = [stats EXCEPT !.progress = [num |-> 100, den |-> 1]]
  /\ UNCHANGED <<pipelineVars, splitVars, mergeVars, lockVars,
                 transcribeVars>>

\* any sequence of progress events for one task
HookNext ==
  \/ \E total, downloaded \in 0..MaxBytes :
       progress_hook_downloading(total, downloaded)
  \/ progress_hook_finished

HookSpec == Init /\ [][HookNext]_vars

\* ------------------------------------------------------------------------
\* AudioSplitter.split_audio
\* ------------------------------------------------------------------------
\* Times are whole seconds on input and milliseconds in the manifest.
Sources ==
  [total_duration : {NoDuration} \cup (0..MaxDuration),
   st_size : 1..MaxAudioSize,
   chunk_duration_sec : 1..MaxChunkDuration,
   ffmpeg_ok : SUBSET (0..(MaxDuration - 1)),
   writable : BOOLEAN]

\* math.ceil(a / b) for a >= 0, b > 0
ceil_div(a, b) == (a + b - 1) \div b

min(a, b) == IF a <= b THEN a ELSE b
max(a, b) == IF a >= b THEN a ELSE b

\* line 108
num_chunks(src) ==
  max(1, ceil_div(src.total_duration, src.chunk_duration_sec))

\* mutation of chunk_info: the equal split without the size check
chunk_info_equal_split(src, i) ==
  LET start_time == i * src.chunk_duration_sec
      end_time == min((i + 1) * src.chunk_duration_sec, src.total_duration)
  IN [chunk_index |-> i,
      start_ms |-> start_time * 1000,
      end_ms |-> end_time * 1000,
      duration_ms |-> (end_time - start_time) * 1000]

\* lines 113-122 and 158-163 with create_chunk_metadata (lines 239-252):
\* chunk i of the equal split; when its estimated size
\* (duration / total_duration) * st_size exceeds chunk_max_size_bytes, its
\* duration is multiplied by chunk_max_size_bytes / estimated size and its
\* end moves to start + duration
chunk_info(src, i) ==
  LET start_time == i * src.chunk_duration_sec
      end_time == min((i + 1) * src.chunk_duration_sec, src.total_duration)
      duration == end_time - start_time
      too_big == duration * src.st_size
                   > chunk_max_size_bytes * src.total_duration
      end_ms == IF too_big
                  THEN start_time * 1000
                       + (chunk_max_size_bytes * src.total_duration * 1000)
                           \div src.st_size
                  ELSE end_time * 1000
  IN [chunk_index |-> i,
      start_ms |-> start_time * 1000,
      end_ms |-> end_ms,
      duration_ms |-> end_ms - start_time * 1000]

\* mutation of extracted_chunks: the loop ends at the first chunk ffmpeg
\* fails on (break where the code has continue)
extracted_until_failure(src) ==
  LET all == [k \in 1..num_chunks(src) |-> chunk_info(src, k - 1)]
      bad == {k \in 1..Len(all) : all[k].chunk_index \notin src.ffmpeg_ok}
  IN IF src.total_duration <= 0 THEN <<>>
     ELSE IF bad = {} THEN all
     ELSE SubSeq(all, 1, (CHOOSE k \in bad : \A j \in bad : k <= j) - 1)

\* lines 111-166: the chunks whose extraction succeeded, in loop order; a
\* chunk ffmpeg fails on is skipped (lines 150-156: continue).  None is
\* extracted from a source of duration 0: line 118 raises in the first
\* iteration, before ffmpeg is run
extracted_chunks(src) ==
  LET all == [k \in 1..num_chunks(src) |-> chunk_info(src, k - 1)]
  IN IF src.total_duration <= 0 THEN <<>>
     ELSE SelectSeq(all, LAMBDA c : c.chunk_index \in src.ffmpeg_ok)

\* lines 98-198: None when the duration probe failed, when the source has
\* duration 0 (line 118 divides by total_duration, the ZeroDivisionError is
\* caught on line 200), when no chunk was extracted, or when the manifest
\* cannot be saved; the extracted chunks otherwise
splitter_split_audio ==
  /\ split_returned = "not_called"
  /\ IF \/ source.total_duration = NoDuration
        \/ source.total_duration = 0
        \/ extracted_chunks(source) = <<>>
        \/ ~source.writable
       THEN split_returned' = "None" /\ UNCHANGED chunks_info
       ELSE /\ split_returned' = "chunks"
            /\ chunks_info' = extracted_chunks(source)
  /\ UNCHANGED <<pipelineVars, stats, source, mergeVars, lockVars,
                 transcribeVars>>

SplitInit ==
  /\ ManagerInit
  /\ queue_maxsize = max_queue_size
  /\ LockIdle
  /\ TranscribeIdle
  /\ responses = [k \in 0..(MaxChunks - 1) |-> NoResponse]
  /\ stats = NewStats
  /\ source \in Sources
  /\ chunks_info = <<>>
  /\ split_returned = "not_called"
  /\ transcripts = [k \in 0..(MaxChunks - 1) |-> NoFile]
  /\ merge_runs = <<>>
  /\ task_metadata = NewMetadata

SplitNext == splitter_split_audio

SplitSpec == SplitInit /\ [][SplitNext]_vars

\* ------------------------------------------------------------------------
\* AudioTranscriber.merge_transcripts
\* ------------------------------------------------------------------------
\* A text is a sequence of characters, "a", "b" and the blank " ".
Texts == {<<>>, <<" ">>, <<"a">>, <<" ", "a", " ", "b">>}

\* the transcript the API returned for chunk k and transcribe_chunk saved
\* (lines 231-232): its text and one segment, at 10 s to 12 s of the chunk;
\* `chunk` stands for the other keys of the segment, which merge copies
Transcripts(k) ==
  {[exists |-> TRUE, text |-> t,
    segments |-> <<[chunk |-> k, start |-> 10, end |-> 12]>>] : t \in Texts}

\* the manifests of n chunks: indices 0 .. n-1, listed in ascending or in
\* descending order, each chunk planned at 100 s and extracted with 100 s
\* or, shortened, with 95 s
ManifestsOf(n) ==
  {[k \in 1..n |->
      LET i == IF up THEN k - 1 ELSE n - k
      IN [chunk_index |-> i,
          start_ms |-> i * 100000,
          end_ms |-> i * 100000 + d[i],
          duration_ms |-> d[i]]] :
     d \in [0..(n - 1) -> {95000, 100000}], up \in BOOLEAN}

\* str.strip()
RECURSIVE lstrip(_)
lstrip(s) == IF s # <<>> /\ Head(s) = " " THEN lstrip(Tail(s)) ELSE s

RECURSIVE rstrip(_)
rstrip(s) ==
  IF s # <<>> /\ s[Len(s)] = " " THEN rstrip(SubSeq(s, 1, Len(s) - 1)) ELSE s

strip(s) == rstrip(lstrip(s))

\* len(s.split()): the number of maximal runs of non-blank characters
word_count(s) ==
  Cardinality({i \in 1..Len(s) : s[i] # " " /\ (i = 1 \/ s[i - 1] = " ")})

\* "\n\n".join(texts)
RECURSIVE join(_)
join(texts) ==
  IF texts = <<>> THEN <<>>
  ELSE IF Len(texts) = 1 THEN texts[1]
  ELSE texts[1] \o <<"\n", "\n">> \o join(Tail(texts))

\* mutation of sorted_by_index: the manifest list as it is
manifest_order(s) == s

\* sorted(chunks_info, key=chunk_index), line 328 (a stable sort)
RECURSIVE insert_by_index(_, _)
insert_by_index(s, c) ==
  IF s = <<>> THEN <<c>>
  ELSE IF c.chunk_index < Head(s).chunk_index THEN <<c>> \o s
  ELSE <<Head(s)>> \o insert_by_index(Tail(s), c)

RECURSIVE sorted_by_index(_)
sorted_by_index(s) ==
  IF s = <<>> THEN <<>>
  ELSE insert_by_index(sorted_by_index(SubSeq(s, 1, Len(s) - 1)), s[Len(s)])

\* lines 329-332: the accumulators before the loop
NewMerge ==
  [merged_text |-> <<>>, merged_segments |-> <<>>, total_duration |-> 0,
   total_words |-> 0]

\* lines 355-359: the segments of one chunk, moved by total_duration
adjusted_segments(segments, total_duration) ==
  [j \in 1..Len(segments) |->
     [segments[j] EXCEPT !.start = @ + total_duration,
                         !.end = @ + total_duration]]

\* mutation of merge_chunks: the loop ends at the first chunk without a
\* transcript file (break where the code has continue)
RECURSIVE merge_chunks_stop_at_missing(_, _, _)
merge_chunks_stop_at_missing(chunks, files, acc) ==
  IF chunks = <<>> THEN acc
  ELSE LET c == Head(chunks)
           f == files[c.chunk_index]
       IN IF ~f.exists
            THEN acc
            ELSE LET text == strip(f.text)
                 IN merge_chunks_stop_at_missing(Tail(chunks), files,
                      [merged_text |->
                         IF text # <<>> THEN Append(acc.merged_text, text)
                                        ELSE acc.merged_text,
                       total_words |->
                         IF text # <<>>
                           THEN acc.total_words + word_count(text)
                           ELSE acc.total_words,
                       merged_segments |->
                         acc.merged_segments
                           \o adjusted_segments(f.segments,
                                                acc.total_duration),
                       total_duration |->
                         acc.total_duration + c.duration_ms \div 1000])

\* lines 335-369: the loop over the sorted chunks; a chunk without a
\* transcript file is skipped by `continue` (lines 339-341), before the
\* duration update of lines 362-363
RECURSIVE merge_chunks(_, _, _)
merge_chunks(chunks, files, acc) ==
  IF chunks = <<>> THEN acc
  ELSE LET c == Head(chunks)
           f == files[c.chunk_index]
       IN IF ~f.exists
            THEN merge_chunks(Tail(chunks), files, acc)
            ELSE LET text == strip(f.text)
                 IN merge_chunks(Tail(chunks), files,
                      [merged_text |->
                         IF text # <<>> THEN Append(acc.merged_text, text)
                                        ELSE acc.merged_text,
                       total_words |->
                         IF text # <<>>
                           THEN acc.total_words + word_count(text)
                           ELSE acc.total_words,
                       merged_segments |->
                         acc.merged_segments
                           \o adjusted_segments(f.segments,
                                                acc.total_duration),
                       total_duration |->
                         acc.total_duration + c.duration_ms \div 1000])

\* lines 309-430 with the accumulators starting at acc: False, with the
\* task's error set, when there is no manifest or no text (lines 323-324,
\* 372-373, 426-430); otherwise the merged file is written and the totals
\* are stored in the task (lines 383-421)
merge_from(acc) ==
  LET m == merge_chunks(sorted_by_index(chunks_info), transcripts, acc)
  IN IF chunks_info = <<>> \/ m.merged_text = <<>>
       THEN /\ merge_runs' = Append(merge_runs,
                                    [returned |-> FALSE, text |-> <<>>,
                                     segments |-> <<>>, total_words |-> 0])
            /\ task_metadata' = [task_metadata EXCEPT !.error = Message]
       ELSE /\ merge_runs' = Append(merge_runs,
                                    [returned |-> TRUE,
                                     text |-> join(m.merged_text),
                                     segments |-> m.merged_segments,
                                     total_words |-> m.total_words])
            /\ task_metadata' =
                 [task_metadata EXCEPT
                    !.total_words = m.total_words,
                    !.total_duration = m.total_duration,
                    !.merged_transcript_path = "merged"]

\* mutation of transcriber_merge_transcripts: the word total continues from
\* the total the previous merge stored in the task
transcriber_merge_accumulating ==
  /\ Len(merge_runs) < MaxMergeRuns
  /\ merge_from([NewMerge EXCEPT !.total_words = task_metadata.total_words])
  /\ UNCHANGED <<pipelineVars, stats, splitVars, transcripts, lockVars,
                 transcribeVars>>

\* AudioTranscriber.merge_transcripts(task); it reads the chunk transcripts
\* and writes none of them
transcriber_merge_transcripts ==
  /\ Len(merge_runs) < MaxMergeRuns
  /\ merge_from(NewMerge)
  /\ UNCHANGED <<pipelineVars, stats, splitVars, transcripts, lockVars,
                 transcribeVars>>

\* merge is called on a task whose manifest and chunk transcripts are on
\* disk; a chunk of the manifest may lack its transcript file
MergeInit ==
  /\ ManagerInit
  /\ queue_maxsize = max_queue_size
  /\ LockIdle
  /\ TranscribeIdle
  /\ responses = [k \in 0..(MaxChunks - 1) |-> NoResponse]
  /\ stats = NewStats
  /\ source = OneSecond
  /\ split_returned = "chunks"
  /\ \E n \in 0..MaxChunks :
       /\ chunks_info \in ManifestsOf(n)
       /\ transcripts \in
            [0..(MaxChunks - 1) ->
               {NoFile} \cup UNION {Transcripts(k) : k \in 0..(MaxChunks - 1)}]
       /\ \A k \in 0..(MaxChunks - 1) :
            /\ k >= n => transcripts[k] = NoFile
            /\ k < n => transcripts[k] \in {NoFile} \cup Transcripts(k)
  /\ merge_runs = <<>>
  /\ task_metadata = NewMetadata

MergeNext == transcriber_merge_transcripts

MergeSpec == MergeInit /\ [][MergeNext]_vars

\* ------------------------------------------------------------------------
\* AudioTranscriber.transcribe_all_chunks and transcribe_chunk
\* ------------------------------------------------------------------------
\* What httpx.post (lines 213-218) returns for a chunk: 200 with the text
\* of the transcription; 429 with a retry-after hint, where text is what
\* the API would answer to the same request sent again after the wait; or
\* 500.  Every other failure of transcribe_chunk (lines 161-185: chunk file
\* missing, preprocessing failed, file too large) has the effect of a 500.
Responses ==
  {[status |-> 200, text |-> t] : t \in Texts}
    \cup {[status |-> 429, text |-> <<"a">>], [status |-> 500, text |-> <<>>]}

\* lines 227-233: the file <chunk stem>.json written from the response
saved_transcript(k, r) ==
  [exists |-> TRUE, text |-> r.text,
   segments |-> <<[chunk |-> k, start |-> 10, end |-> 12]>>]

\* lines 266-282, up to the loop; an empty manifest raises (line 269), and
\* the handler of lines 294-297 sets the error and returns False
transcriber_transcribe_all_begin ==
  /\ transcribe_pc = "not_called"
  /\ IF chunks_info = <<>>
       THEN /\ transcribe_pc' = "returned"
            /\ all_success' = FALSE
            /\ task_metadata' = [task_metadata EXCEPT !.error = Message]
            /\ UNCHANGED tpos
       ELSE /\ transcribe_pc' = "loop"
            /\ all_success' = TRUE
            /\ tpos' = 1
            /\ UNCHANGED task_metadata
  /\ UNCHANGED <<responses, attempted, tm_word_count, transcripts,
                 merge_runs>>
  /\ UNCHANGED <<pipelineVars, stats, splitVars, lockVars>>

\* mutation of transcriber_transcribe_chunk: the loop ends at the first
\* chunk that fails
transcriber_transcribe_chunk_or_stop ==
  /\ transcribe_pc = "loop"
  /\ tpos <= Len(chunks_info)
  /\ LET k == chunks_info[tpos].chunk_index
         r == responses[k]
     IN IF r.status = 200
          THEN /\ transcripts' = [transcripts EXCEPT ![k] = saved_transcript(k, r)]
               /\ tm_word_count' = tm_word_count + word_count(r.text)
               /\ attempted' = Append(attempted, [chunk |-> k, success |-> TRUE])
               /\ tpos' = tpos + 1
               /\ UNCHANGED <<task_metadata, all_success>>
          ELSE /\ task_metadata' = [task_metadata EXCEPT !.error = Message]
               /\ all_success' = FALSE
               /\ attempted' = Append(attempted, [chunk |-> k, success |-> FALSE])
               /\ tpos' = Len(chunks_info) + 1
               /\ UNCHANGED <<transcripts, tm_word_count>>
  /\ UNCHANGED <<responses, transcribe_pc, merge_runs>>
  /\ UNCHANGED <<pipelineVars, stats, splitVars, lockVars>>

\* one iteration of the loop of lines 284-290: transcribe_chunk (lines
\* 159-252) on the next chunk of the manifest list.  A 200 is saved and
\* counted (lines 223-244); anything else raises (line 221) and the
\* handler of lines 249-252 sets the error and returns False
transcriber_transcribe_chunk ==
  /\ transcribe_pc = "loop"
  /\ tpos <= Len(chunks_info)
  /\ LET k == chunks_info[tpos].chunk_index
         r == responses[k]
     IN IF r.status = 200
          THEN /\ transcripts' = [transcripts EXCEPT ![k] = saved_transcript(k, r)]
               /\ tm_word_count' = tm_word_count + word_count(r.text)
               /\ attempted' = Append(attempted, [chunk |-> k, success |-> TRUE])
               /\ UNCHANGED <<task_metadata, all_success>>
          ELSE /\ task_metadata' = [task_metadata EXCEPT !.error = Message]
               /\ all_success' = FALSE
               /\ attempted' = Append(attempted, [chunk |-> k, success |-> FALSE])
               /\ UNCHANGED <<transcripts, tm_word_count>>
  /\ tpos' = tpos + 1
  /\ UNCHANGED <<responses, transcribe_pc, merge_runs>>
  /\ UNCHANGED <<pipelineVars, stats, splitVars, lockVars>>

\* line 292: return all_success
transcriber_transcribe_all_return ==
  /\ transcribe_pc = "loop"
  /\ tpos > Len(chunks_info)
  /\ transcribe_pc' = "returned"
  /\ UNCHANGED <<responses, tpos, all_success, attempted, tm_word_count>>
  /\ UNCHANGED <<pipelineVars, stats, splitVars, mergeVars, lockVars>>

\* transcribe_all_chunks is called after split_audio has returned a
\* manifest, which is never empty (splitter.py lines 168-173, manager.py
\* lines 130-134); the transcripts directory is empty or holds the
\* transcripts of an earlier pass
TranscribeInit ==
  /\ ManagerInit
  /\ queue_maxsize = max_queue_size
  /\ LockIdle
  /\ TranscribeIdle
  /\ stats = NewStats
  /\ source = OneSecond
  /\ split_returned = "chunks"
  /\ \E n \in 1..MaxChunks :
       /\ chunks_info \in ManifestsOf(n)
       /\ responses \in [0..(MaxChunks - 1) -> Responses \cup {NoResponse}]
       /\ \A k \in 0..(MaxChunks - 1) :
            (k < n) <=> (responses[k] \in Responses)
       /\ \E earlier \in BOOLEAN :
            transcripts =
              [k \in 0..(MaxChunks - 1) |->
                 IF earlier /\ k < n
                   THEN saved_transcript(k, [status |-> 200, text |-> <<"b">>])
                   ELSE NoFile]
  /\ merge_runs = <<>>
  /\ task_metadata = NewMetadata

TranscribeNext ==
  \/ transcriber_transcribe_all_begin
  \/ transcriber_transcribe_chunk
  \/ transcriber_transcribe_all_return

TranscribeSpec == TranscribeInit /\ [][TranscribeNext]_vars

\* ------------------------------------------------------------------------
\* The passes of one task through transcribe_all_chunks and merge
\* ------------------------------------------------------------------------
\* manager.py lines 150-162: merge_transcripts is called once
\* transcribe_all_chunks has returned True; the task is COMPLETED when it
\* returns True and FAILED otherwise
process_task_merge ==
  /\ transcribe_pc = "returned"
  /\ all_success
  /\ merge_from(NewMerge)
  /\ transcribe_pc' = "merged"
  /\ UNCHANGED <<responses, tpos, all_success, attempted, tm_word_count,
                 transcripts>>
  /\ UNCHANGED <<pipelineVars, stats, splitVars, lockVars>>

\* the pass has ended with the task COMPLETED (manager.py line 162)
PassCompleted ==
  /\ transcribe_pc = "merged"
  /\ merge_runs[Len(merge_runs)].returned

\* the pass has ended with the task FAILED (manager.py lines 143-144 and
\* 154-155)
PassFailed ==
  \/ transcribe_pc = "returned" /\ ~all_success
  \/ transcribe_pc = "merged" /\ ~merge_runs[Len(merge_runs)].returned

\* resume_task (manager.py lines 171-179) on the failed task, and the new
\* pass up to the call of transcribe_all_chunks: the same task object is
\* queued again, so its transcription_metadata, its metadata and the
\* files of the earlier pass are kept; download and split produce the same
\* manifest, and the API answers the new requests
resumed_pass ==
  /\ PassFailed
  /\ npasses + 1 < MaxPasses
  /\ npasses' = npasses + 1
  /\ transcribe_pc' = "not_called"
  /\ tpos' = 0
  /\ all_success' = TRUE
  /\ attempted' = <<>>
  /\ responses' \in [0..(MaxChunks - 1) -> Responses \cup {NoResponse}]
  /\ \A k \in 0..(MaxChunks - 1) :
       (k < Len(chunks_info)) <=> (responses'[k] \in Responses)
  /\ UNCHANGED <<tm_word_count, transcripts, merge_runs, task_metadata>>
  /\ UNCHANGED <<managerVars, nestVars, stats, splitVars, lockVars>>

\* the first pass of a new task: an empty transcripts directory and a
\* manifest of equal chunks in index order
PassInit ==
  /\ ManagerInit
  /\ queue_maxsize = max_queue_size
  /\ LockIdle
  /\ TranscribeIdle
  /\ stats = NewStats
  /\ source = OneSecond
  /\ split_returned = "chunks"
  /\ \E n \in 1..MaxPassChunks :
       /\ chunks_info \in {m \in ManifestsOf(n) :
                             \A k \in 1..n : /\ m[k].chunk_index = k - 1
                                              /\ m[k].duration_ms = 100000}
       /\ responses \in [0..(MaxChunks - 1) -> Responses \cup {NoResponse}]
       /\ \A k \in 0..(MaxChunks - 1) :
            (k < n) <=> (responses[k] \in Responses)
  /\ transcripts = [k \in 0..(MaxChunks - 1) |-> NoFile]
  /\ merge_runs = <<>>
  /\ task_metadata = NewMetadata

PassNext ==
  \/ transcriber_transcribe_all_begin
  \/ transcriber_transcribe_chunk
  \/ transcriber_transcribe_all_return
  \/ process_task_merge
  \/ resumed_pass

PassSpec == PassInit /\ [][PassNext]_vars

\* ------------------------------------------------------------------------
\* The writes of one pass to the fields of its task, and the task's lock
\* ------------------------------------------------------------------------
\* the writes of a pass in which every stage succeeds, in program order;
\* locked: whether the statement is inside `with task._lock`
PassWrites ==
  << [line |-> 114, field |-> "status", locked |-> TRUE],
       \* manager.py: update_status(DOWNLOADING), tasks.py 57-58
     [line |-> 228, field |-> "metadata", locked |-> FALSE],
       \* downloader.py: task.metadata['video_dir'] = str(video_dir)
     [line |-> 167, field |-> "title", locked |-> TRUE],
       \* downloader.py save_metadata 167-169: metadata and title
     [line |-> 77, field |-> "stats", locked |-> TRUE],
       \* downloader.py progress_hook 77-90, 'downloading'
     [line |-> 93, field |-> "stats", locked |-> TRUE],
       \* downloader.py progress_hook 93-99, 'finished'
     [line |-> 288, field |-> "temp_video_path", locked |-> FALSE],
       \* downloader.py: task.temp_video_path = final_wav
     [line |-> 127, field |-> "status", locked |-> TRUE],
       \* manager.py: update_status(SPLITTING)
     [line |-> 80, field |-> "metadata", locked |-> TRUE],
       \* splitter.py 80-87: metadata['chunks_dir']
     [line |-> 194, field |-> "metadata", locked |-> TRUE],
       \* splitter.py 194-195: metadata['chunks_info']
     [line |-> 139, field |-> "status", locked |-> TRUE],
       \* manager.py: update_status(TRANSCRIBING)
     [line |-> 281, field |-> "metadata", locked |-> FALSE],
       \* audio_transcriber.py: task.metadata['transcripts_dir'] = ...
     [line |-> 240, field |-> "transcription_metadata", locked |-> TRUE],
       \* audio_transcriber.py transcribe_chunk 240-244
     [line |-> 410, field |-> "transcription_metadata", locked |-> TRUE],
       \* audio_transcriber.py merge_transcripts 410-421, with metadata
     [line |-> 162, field |-> "status", locked |-> TRUE] >>
       \* manager.py: update_status(COMPLETED)

\* the writes that end a pass whose stage failed (manager.py 119-120,
\* 131-132, 143-144, 154-155, 168-169): set_error, update_status(FAILED)
FailWrites ==
  << [line |-> 119, field |-> "error", locked |-> TRUE],
     [line |-> 120, field |-> "status", locked |-> TRUE] >>

WriteSites == PassWrites \o FailWrites
FailSite == Len(PassWrites) + 1
PassOver == Len(WriteSites) + 1

\* `with task._lock:` entered by the worker (threading.Lock.acquire blocks
\* while another thread holds the lock)
pass_lock_acquire ==
  /\ wsite < PassOver
  /\ WriteSites[wsite].locked
  /\ task_lock = "free"
  /\ task_lock' = "worker"
  /\ UNCHANGED <<wsite, ui_pc, last_write>>
  /\ UNCHANGED <<pipelineVars, stats, splitVars, mergeVars, transcribeVars>>

\* the next write of the pass; a write inside `with task._lock` ends the
\* block and releases the lock
pass_write ==
  /\ wsite < PassOver
  /\ WriteSites[wsite].locked => task_lock = "worker"
  /\ last_write' = [by |-> "worker", field |-> WriteSites[wsite].field,
                    line |-> WriteSites[wsite].line, holder |-> task_lock]
  /\ task_lock' = IF WriteSites[wsite].locked THEN "free" ELSE task_lock
  /\ wsite' = IF wsite = Len(PassWrites) THEN PassOver ELSE wsite + 1
  /\ UNCHANGED ui_pc
  /\ UNCHANGED <<pipelineVars, stats, splitVars, mergeVars, transcribeVars>>

\* a stage processor returns failure: the pass goes on with the writes of
\* the failure branch
pass_stage_fails ==
  /\ wsite > 1
  /\ wsite < Len(PassWrites)
  /\ task_lock # "worker"
  /\ wsite' = FailSite
  /\ UNCHANGED <<task_lock, ui_pc, last_write>>
  /\ UNCHANGED <<pipelineVars, stats, splitVars, mergeVars, transcribeVars>>

\* cli.py lines 84 and 327: task.update_status(CANCELLED) on the UI
\* thread; tasks.py line 57: with self._lock
ui_cancel_acquire ==
  /\ ui_pc = "idle"
  /\ task_lock = "free"
  /\ task_lock' = "ui"
  /\ ui_pc' = "locked"
  /\ UNCHANGED <<wsite, last_write>>
  /\ UNCHANGED <<pipelineVars, stats, splitVars, mergeVars, transcribeVars>>

\* tasks.py line 58: self.status = status, and the end of the with block
ui_cancel_write ==
  /\ ui_pc = "locked"
  /\ last_write' = [by |-> "ui", field |-> "status", line |-> 58,
                    holder |-> task_lock]
  /\ task_lock' = "free"
  /\ ui_pc' = "idle"
  /\ UNCHANGED wsite
  /\ UNCHANGED <<pipelineVars, stats, splitVars, mergeVars, transcribeVars>>

LockNext ==
  \/ pass_lock_acquire
  \/ pass_write
  \/ pass_stage_fails
  \/ ui_cancel_acquire
  \/ ui_cancel_write

LockSpec == Init /\ [][LockNext]_vars

\* ------------------------------------------------------------------------
\* The order in which the threads take the Manager lock and a task's lock
\* ------------------------------------------------------------------------
\* `with lock:` entered and left, and a statement that takes no lock
acquire(l, n) == [op |-> "acquire", lock |-> l, line |-> n]
release(l, n) == [op |-> "release", lock |-> l, line |-> n]
call(n) == [op |-> "call", lock |-> "none", line |-> n]

\* the lock steps of the writes of a pass: a write inside `with
\* task._lock` is the whole block, any other write takes no lock
RECURSIVE site_steps(_)
site_steps(sites) ==
  IF sites = <<>> THEN <<>>
  ELSE (IF Head(sites).locked
          THEN <<acquire("task", Head(sites).line),
                 release("task", Head(sites).line)>>
          ELSE <<call(Head(sites).line)>>)
       \o site_steps(Tail(sites))

\* a pass whose split_audio finds no audio file: the writes up to
\* splitter.py line 87, the error of lines 94-95, then manager.py 131-132
SplitFailedWrites ==
  SubSeq(PassWrites, 1, 8)
    \o << [line |-> 94, field |-> "metadata", locked |-> TRUE] >>
    \o FailWrites

\* mutation of resume_task_locks: update_status is called inside the
\* `with self._lock` block of can_resume
resume_task_locks_nested ==
  << acquire("manager", 173), acquire("task", 67), acquire("task", 57),
     release("task", 58), release("task", 68), call(176),
     release("manager", 179) >>

\* Manager.resume_task of a resumable task: manager.py line 173, can_resume
\* (tasks.py 67-68), update_status (tasks.py 57-58), put (line 176), and
\* the end of the with block
resume_task_locks ==
  << acquire("manager", 173), acquire("task", 67), release("task", 68),
     acquire("task", 57), release("task", 58), call(176),
     release("manager", 179) >>

\* Manager.add_task when the queue is full: lines 71-78, put (line 81),
\* lines 86-87
add_task_locks ==
  << acquire("manager", 71), release("manager", 78), call(81),
     acquire("manager", 86), release("manager", 87) >>

\* the steps of an operation
LockSteps(prog) ==
  CASE prog = "pass" -> site_steps(PassWrites)
    [] prog = "failed_pass" -> site_steps(SplitFailedWrites)
    [] prog = "cancel" -> <<acquire("task", 57), release("task", 58)>>
         \* cli.py line 84: task.update_status(CANCELLED)
    [] prog = "resume" ->
         <<acquire("task", 67), release("task", 68)>> \o resume_task_locks
         \* cli.py lines 91-92: task.can_resume(), manager.resume_task(task)
    [] prog = "add_task" -> add_task_locks
         \* cli.py line 353
    [] prog = "get_tasks" -> <<acquire("manager", 202), release("manager", 203)>>
    [] prog = "none" -> <<>>

\* the operations a thread runs, one after the other
ThreadProgs(th) ==
  CASE th = "worker" -> {"pass", "failed_pass"}
    [] th = "ui" -> {"cancel", "resume", "add_task"}
    [] th = "reader" -> {"get_tasks"}

\* the step a thread is at, and what follows it
NoStep == call(0)
next_step(th) ==
  IF lock_prog[th] = "none" THEN NoStep
  ELSE LockSteps(lock_prog[th])[lock_pc[th]]

step_done(th) ==
  IF lock_pc[th] = Len(LockSteps(lock_prog[th]))
    THEN /\ lock_prog' = [lock_prog EXCEPT ![th] = "none"]
         /\ lock_pc' = [lock_pc EXCEPT ![th] = 0]
    ELSE /\ lock_pc' = [lock_pc EXCEPT ![th] = @ + 1]
         /\ UNCHANGED lock_prog

\* a thread starts its next operation
thread_begin(th, prog) ==
  /\ lock_prog[th] = "none"
  /\ lock_prog' = [lock_prog EXCEPT ![th] = prog]
  /\ lock_pc' = [lock_pc EXCEPT ![th] = 1]
  /\ UNCHANGED lock_owner
  /\ UNCHANGED <<managerVars, passVars, stats, splitVars, mergeVars,
                 lockVars, transcribeVars>>

\* threading.Lock.acquire: it blocks while any thread, the caller
\* included, holds the lock
lock_acquire(th) ==
  /\ next_step(th).op = "acquire"
  /\ lock_owner[next_step(th).lock] = "free"
  /\ lock_owner' = [lock_owner EXCEPT ![next_step(th).lock] = th]
  /\ step_done(th)
  /\ UNCHANGED <<managerVars, passVars, stats, splitVars, mergeVars,
                 lockVars, transcribeVars>>

\* the end of a with block
lock_release(th) ==
  /\ next_step(th).op = "release"
  /\ lock_owner' = [lock_owner EXCEPT ![next_step(th).lock] = "free"]
  /\ step_done(th)
  /\ UNCHANGED <<managerVars, passVars, stats, splitVars, mergeVars,
                 lockVars, transcribeVars>>

\* a statement outside every with block of these two locks, or the put
\* of resume_task
thread_call(th) ==
  /\ lock_prog[th] # "none"
  /\ next_step(th).op = "call"
  /\ step_done(th)
  /\ UNCHANGED lock_owner
  /\ UNCHANGED <<managerVars, passVars, stats, splitVars, mergeVars,
                 lockVars, transcribeVars>>

NestNext ==
  \/ \E th \in LockThreads : \E prog \in ThreadProgs(th) : thread_begin(th, prog)
  \/ \E th \in LockThreads : lock_acquire(th)
  \/ \E th \in LockThreads : lock_release(th)
  \/ \E th \in LockThreads : thread_call(th)

NestSpec == Init /\ [][NestNext]_vars

TypeOK ==
  /\ npasses \in 0..MaxPasses
  /\ lock_prog \in [LockThreads -> {"none", "pass", "failed_pass", "cancel",
                                     "resume", "add_task", "get_tasks"}]
  /\ \A th \in LockThreads : lock_pc[th] \in 0..Len(LockSteps(lock_prog[th]))
  /\ lock_owner \in [Locks -> LockThreads \cup {"free"}]
  /\ queue_maxsize \in {max_queue_size, wide_queue_size}
  /\ Len(task_queue) <= queue_maxsize
  /\ transcribe_pc \in {"not_called", "loop", "returned", "merged"}
  /\ tpos \in 0..(Len(chunks_info) + 1)
  /\ all_success \in BOOLEAN
  /\ Len(attempted) <= Len(chunks_info)
  /\ tm_word_count \in Nat
  /\ \A k \in 0..(MaxChunks - 1) : responses[k] \in Responses \cup {NoResponse}
  /\ task_lock \in {"free", "worker", "ui"}
  /\ wsite \in 1..PassOver
  /\ ui_pc \in {"idle", "locked"}
  /\ last_write.by \in {"none", "worker", "ui"}
  /\ Len(merge_runs) <= MaxMergeRuns
  /\ source \in Sources
  /\ split_returned \in {"not_called", "chunks", "None"}
  /\ stats.total_bytes \in 0..MaxBytes
  /\ stats.downloaded_bytes \in 0..MaxBytes
  /\ stats.progress.num \in Nat /\ stats.progress.den \in Nat \ {0}
  /\ ntasks \in 0..MaxTasks
  /\ ncalls \in 0..MaxCalls
  /\ Range(tasks) \subseteq Created
  /\ Range(task_queue) \subseteq Created
  /\ \A t \in Created : status[t] \in TaskStatus
  /\ \A t \in Created : error[t] \in {NoError, Message}
  /\ \A t \in Created : add_pc[t] \in {"put", "rollback", "returned"}
  /\ add_result \in {"none", "queued", "exists", "full"}
  /\ unfinished \in Nat
  /\ lock \in Created \cup {NoTask}
  /\ wpc \in [Workers -> PassPcs \cup {"not_started", "check", "get", "done"}]
  /\ workers_started \in BOOLEAN
  /\ nthreads \in Nat
  /\ nstarts \in 0..MaxStarts
  /\ \A w \in Workers : \A i \in 1..Len(invoked[w]) : invoked[w][i] \in StagePcs
  /\ \A t \in Created : ndeq[t] \in 0..MaxCalls
  /\ spc \in {"idle", "queue_join", "join_workers", "returned"}
  /\ at_shutdown \in [Workers -> {"idle", "mid_pass", "pass_done"}]

\* ========================================================================
\* Claims
\* ========================================================================

\* no two tasks of the registry share a URL
NoDuplicateUrl ==
  \A i, j \in 1..Len(tasks) : url[tasks[i]] = url[tasks[j]] => i = j

\* C1: add_task with a URL that a registry task already has returns False
\* and leaves the registry as it is, holding exactly one task with that URL;
\* and in every reachable state, whatever the interleaving of add_task calls
\* of several threads, no two tasks of the registry share a URL.
C1_DuplicateUrlRejected ==
  /\ []NoDuplicateUrl
  /\ [][\A u \in Urls :
          (add_task_locked(u) /\ \E i \in 1..Len(tasks) : url[tasks[i]] = u)
            => /\ add_result' = "exists"
               /\ tasks' = tasks
               /\ Cardinality({i \in 1..Len(tasks') : url[tasks'[i]] = u}) = 1
       ]_vars

\* a duplicate add_task has just been rejected, one task in the registry
C1_Witness ==
  /\ add_result = "exists"
  /\ Len(tasks) = 1
  /\ ncalls >= 2

\* C2: when the queue holds max_queue_size items, the put of add_task fails
\* without changing registry or queue, and the call then returns False
\* having removed exactly the task it had appended: at its return the
\* registry is what it was before the call, and the queue was never touched.
C2_FullQueueRollsBack ==
  [][\A t \in Created :
       /\ (add_pc[t] = "put" /\ Len(task_queue) >= max_queue_size
             /\ add_pc'[t] # "put")
            => /\ add_pc'[t] = "rollback"
               /\ UNCHANGED <<tasks, task_queue, unfinished, add_result>>
       /\ (add_pc[t] = "rollback" /\ add_pc'[t] # "rollback")
            => /\ add_result' = "full"
               /\ t \in Range(tasks)
               /\ tasks' = SelectSeq(tasks, LAMBDA x : x # t)
               /\ UNCHANGED <<task_queue, unfinished>>
    ]_vars

\* the scenario of the spec: the queue is full of tasks no worker has
\* dequeued, one more add_task has returned False, and the registry holds
\* max_queue_size tasks
C2_Witness ==
  /\ add_result = "full"
  /\ ntasks = max_queue_size + 1
  /\ Len(tasks) = max_queue_size
  /\ task_queue = tasks
  /\ unfinished = max_queue_size
  /\ \A w \in Workers : wtask[w] = NoTask
  /\ \A t \in Created : status[t] = "PENDING"

\* C3: a task is in the registry if and only if it is queued, or owned by a
\* worker, or COMPLETED, FAILED, CANCELLED or PAUSED.
C3_RegistryQueueConsistent ==
  \A t \in Created :
    t \in Range(tasks) <=>
      \/ t \in Range(task_queue)
      \/ \E w \in Workers : wpc[w] \in PassPcs /\ wtask[w] = t
      \/ status[t] \in {"COMPLETED", "FAILED", "CANCELLED", "PAUSED"}

\* C4: resume_task on a FAILED, CANCELLED or PAUSED task sets it PENDING and
\* enqueues it exactly once (at once, or when the queue has room again);
\* on a task of any other status it changes neither status nor queue.  No
\* step makes a task PENDING again unless it was resumable.
C4_ResumeOnlyWhenResumable ==
  /\ [][\A t \in Created :
          resume_task(t) =>
            IF status[t] \in {"FAILED", "CANCELLED", "PAUSED"}
              THEN /\ status' = [status EXCEPT ![t] = "PENDING"]
                   /\ \/ /\ task_queue' = Append(task_queue, t)
                         /\ lock' = NoTask
                      \/ /\ task_queue' = task_queue
                         /\ lock' = t
              ELSE UNCHANGED <<status, task_queue, unfinished, lock>>
       ]_vars
  /\ [][(lock # NoTask /\ lock' # lock)
          => /\ task_queue' = Append(task_queue, lock)
             /\ status' = status
       ]_vars
  /\ [][\A t \in Created :
          (status[t] # "PENDING" /\ status'[t] = "PENDING")
            => status[t] \in {"FAILED", "CANCELLED", "PAUSED"}
       ]_vars

\* a task that failed has been resumed: it is PENDING and queued once
C4_Witness ==
  \E t \in Created :
    /\ error[t] # NoError
    /\ status[t] = "PENDING"
    /\ Cardinality({i \in 1..Len(task_queue) : task_queue[i] = t}) = 1

\* C5: at most one worker is inside _process_task for a given task.
C5_OneWorkerPerTask ==
  \A w1, w2 \in Workers :
    (w1 # w2 /\ wpc[w1] \in ProcessPcs /\ wpc[w2] \in ProcessPcs)
      => wtask[w1] # wtask[w2]

\* C6: shutdown(), once called, eventually returns.
C6_ShutdownReturns == (spc = "queue_join") ~> (spc = "returned")

\* C7: shutdown() does not return while a worker that was inside a pass at
\* the call has not finished that pass; a pass ends with COMPLETED or FAILED
\* written; and shutdown returns only after each worker has exited or its
\* join timed out and was reported.
C7_ShutdownWaitsForPass ==
  /\ [](spc = "returned"
          => /\ \A w \in Workers : at_shutdown[w] # "mid_pass"
             /\ \A w \in Workers :
                  \/ reported[w] = "terminated" /\ wpc[w] = "done"
                  \/ reported[w] = "alive")
  /\ [][\A w \in Workers :
          (wpc[w] # "task_done" /\ wpc'[w] = "task_done")
            => status'[wtask[w]] \in {"COMPLETED", "FAILED"}
       ]_vars

\* shutdown has returned, and a worker that was mid-pass when it was called
\* has finished its task
C7_Witness ==
  /\ spc = "returned"
  /\ \E w \in Workers : at_shutdown[w] = "pass_done"

\* C8: a worker leaves its loop only when the stop signal is set and the
\* queue is empty.
C8_WorkerExitsOnlyWhenDrained ==
  [][\A w \in Workers :
       (wpc[w] # "done" /\ wpc'[w] = "done")
         => shutdown_event /\ task_queue = <<>>
    ]_vars

\* C9: once a task is CANCELLED, the worker that holds it (dequeued, or
\* inside a stage) starts no further stage for it and does not write
\* COMPLETED.
C9_CancelStopsPipeline ==
  [][\A w \in Workers :
       (wpc[w] \in {"start", "download", "split", "transcribe", "merge"}
          /\ status[wtask[w]] = "CANCELLED" /\ wpc'[w] # wpc[w])
         => /\ wpc'[w] \notin {"download", "split", "transcribe", "merge"}
            /\ status'[wtask[w]] # "COMPLETED"
    ]_vars

\* C10: COMPLETED never changes; FAILED and CANCELLED change only to
\* PENDING.
C10_TerminalStatusStable ==
  [][\A t \in Created :
       /\ status[t] = "COMPLETED" => status'[t] = "COMPLETED"
       /\ status[t] \in {"FAILED", "CANCELLED"}
            => status'[t] \in {status[t], "PENDING"}
    ]_vars

\* s is a prefix of t
IsPrefix(s, t) == Len(s) <= Len(t) /\ \A i \in 1..Len(s) : s[i] = t[i]

\* a stage processor called by worker w has reported failure or raised
StageFailure(w) ==
  \/ download_video(w, FALSE)
  \/ split_audio(w, FALSE)
  \/ transcribe_all_chunks(w, FALSE)
  \/ merge_transcripts(w, FALSE)

\* C11: when download, split, transcribe_all or merge reports failure (or
\* raises), the worker sets a non-empty error, then writes FAILED, then ends
\* the pass, and calls no further stage processor in that pass; in every
\* state a task whose status is FAILED has its error set.
C11_FailureShortCircuits ==
  /\ [](\A t \in Created : status[t] = "FAILED" => error[t] # NoError)
  /\ [][\A w \in Workers :
          /\ StageFailure(w)
               => /\ wpc'[w] = "set_failed"
                  /\ error'[wtask[w]] # NoError
                  /\ invoked'[w] = invoked[w]
          /\ (wpc[w] = "set_failed" /\ wpc'[w] # "set_failed")
               => /\ wpc'[w] = "task_done"
                  /\ status'[wtask[w]] = "FAILED"
                  /\ error'[wtask[w]] # NoError
                  /\ invoked'[w] = invoked[w]
       ]_vars

\* a pass has ended FAILED after the splitter failed: neither transcribe_all
\* nor merge was called
C11_Witness ==
  \E w \in Workers :
    /\ wpc[w] = "task_done"
    /\ invoked[w] = <<"download", "split">>
    /\ status[wtask[w]] = "FAILED"
    /\ error[wtask[w]] # NoError

\* C12: in a pass the stage processors are called in the order download,
\* split, transcribe_all, merge; a processor is called, and SPLITTING or
\* TRANSCRIBING written, only when the previous processor has returned
\* success; COMPLETED is written only when merge, the last of the four, has
\* returned success.
C12_StagesInOrder ==
  /\ [](\A w \in Workers : IsPrefix(invoked[w], Pipeline))
  /\ [][\A w \in Workers :
          (invoked'[w] # invoked[w] /\ invoked'[w] # <<>>)
            => \/ process_task_start(w) /\ invoked'[w] = <<"download">>
               \/ /\ download_video(w, TRUE)
                  /\ invoked'[w] = <<"download", "split">>
               \/ /\ split_audio(w, TRUE)
                  /\ invoked'[w] = <<"download", "split", "transcribe">>
               \/ /\ transcribe_all_chunks(w, TRUE)
                  /\ invoked'[w] = Pipeline
       ]_vars
  /\ [][\A t \in Created :
          /\ (status'[t] = "SPLITTING" /\ status[t] # "SPLITTING")
               => \E w \in Workers : wtask[w] = t /\ download_video(w, TRUE)
          /\ (status'[t] = "TRANSCRIBING" /\ status[t] # "TRANSCRIBING")
               => \E w \in Workers : wtask[w] = t /\ split_audio(w, TRUE)
          /\ (status'[t] = "COMPLETED" /\ status[t] # "COMPLETED")
               => \E w \in Workers :
                    /\ wtask[w] = t
                    /\ invoked[w] = Pipeline
                    /\ merge_transcripts(w, TRUE)
       ]_vars

\* a pass has run all four stage processors and the task is COMPLETED
C12_Witness ==
  \E w \in Workers :
    /\ wpc[w] = "task_done"
    /\ invoked[w] = Pipeline
    /\ status[wtask[w]] = "COMPLETED"

\* position of a status in the order of the pipeline, -1 outside it
StatusRank(s) ==
  CASE s = "PENDING" -> 0
    [] s = "DOWNLOADING" -> 1
    [] s = "SPLITTING" -> 2
    [] s = "TRANSCRIBING" -> 3
    [] s = "COMPLETED" -> 4
    [] OTHER -> -1

\* C13: the status of a task never moves backward in the order PENDING,
\* DOWNLOADING, SPLITTING, TRANSCRIBING, COMPLETED (a step from one of
\* these to an earlier one is a step between two resume_task calls, which
\* pass through FAILED, CANCELLED or PAUSED), and only resume_task returns
\* a task to PENDING.
C13_StatusMonotonic ==
  [][\A t \in Created :
       /\ (StatusRank(status[t]) >= 0 /\ StatusRank(status'[t]) >= 0)
            => StatusRank(status'[t]) >= StatusRank(status[t])
       /\ (status'[t] = "PENDING" /\ status[t] # "PENDING")
            => (resume_task(t) /\ can_resume(status, t))
    ]_vars

\* C14: after any sequence of progress events, stats.progress is within
\* [0, 100], and it is 0 whenever total_bytes is 0.
C14_ProgressInRange ==
  /\ 0 <= stats.progress.num
  /\ stats.progress.num <= 100 * stats.progress.den
  /\ stats.total_bytes = 0 => stats.progress.num = 0

\* C15: the manifest split_audio produces for a source of duration D and a
\* chunk duration T has N = ceil(D / T) chunks, with indices 0 .. N-1 in
\* ascending order, each chunk starting at or after the end of the one
\* before.
C15_ManifestInvariant ==
  split_returned = "chunks" =>
    LET N == ceil_div(source.total_duration, source.chunk_duration_sec)
    IN /\ Len(chunks_info) = N
       /\ \A k \in 1..Len(chunks_info) :
            /\ chunks_info[k].chunk_index = k - 1
            /\ k > 1 => chunks_info[k].start_ms >= chunks_info[k - 1].end_ms

\* the manifest durations, in seconds, of the chunks with an index below k
RECURSIVE prior_duration(_, _)
prior_duration(chunks, k) ==
  IF chunks = <<>> THEN 0
  ELSE (IF Head(chunks).chunk_index < k
          THEN Head(chunks).duration_ms \div 1000 ELSE 0)
       + prior_duration(Tail(chunks), k)

\* C16: in the merged output every segment of chunk k has its start and end
\* advanced by the sum of the manifest durations of all chunks with an
\* index below k.
C16_SegmentsRebased ==
  \A r \in 1..Len(merge_runs) :
    merge_runs[r].returned =>
      \A i \in 1..Len(merge_runs[r].segments) :
        LET sg == merge_runs[r].segments[i]
            local == transcripts[sg.chunk].segments[1]
        IN /\ sg.start = local.start + prior_duration(chunks_info, sg.chunk)
           /\ sg.end = local.end + prior_duration(chunks_info, sg.chunk)

\* C17: every run of merge on the same chunk transcripts returns the same
\* result with the same merged text and the same total word count, the
\* total stored in the task is that of the run, and a run of merge leaves
\* the chunk transcripts and the manifest as they are.
C17_MergeIdempotent ==
  /\ [](\A i, j \in 1..Len(merge_runs) :
          /\ merge_runs[i].returned = merge_runs[j].returned
          /\ merge_runs[i].text = merge_runs[j].text
          /\ merge_runs[i].total_words = merge_runs[j].total_words)
  /\ [](\A i \in 1..Len(merge_runs) :
          merge_runs[i].returned
            => task_metadata.total_words = merge_runs[i].total_words)
  /\ [][transcripts' = transcripts /\ chunks_info' = chunks_info]_vars

\* merge has run twice on three chunk transcripts with text and produced a
\* merged text of several words both times
C17_Witness ==
  /\ Len(merge_runs) = 2
  /\ Len(chunks_info) = 3
  /\ \A k \in 0..2 :
       transcripts[k].exists /\ strip(transcripts[k].text) # <<>>
  /\ merge_runs[2].returned
  /\ merge_runs[2].total_words >= 3

\* C18: add_task never waits for queue space: its own put does not block,
\* and the Manager lock, which add_task takes on entry (line 71) and for
\* its rollback (line 86), is never held by an operation that is waiting
\* for room in a full queue.
C18_AddTaskNeverWaits ==
  /\ \A t \in Created : add_pc[t] = "put" => ENABLED add_task_put(t)
  /\ ~(lock # NoTask /\ queue_full(task_queue))

\* C19: no task with an empty URL is ever in the registry, in the queue, or
\* taken to DOWNLOADING by a worker.
C19_EmptyUrlRejected ==
  \A t \in Created :
    url[t] = EmptyUrl =>
      /\ t \notin Range(tasks)
      /\ t \notin Range(task_queue)
      /\ status[t] # "DOWNLOADING"

\* C20: every pass, so also the pass that follows a resume_task, starts at
\* the download stage: a worker that has dequeued a task calls no stage
\* processor before the downloader, whatever the previous pass did.
C20_ResumeRestartsAtDownload ==
  /\ [](\A w \in Workers :
          (wpc[w] \in PassPcs /\ invoked[w] # <<>>)
            => Head(invoked[w]) = "download")
  /\ [][\A w \in Workers :
          /\ worker_get(w) => (wpc'[w] = "start" /\ invoked'[w] = <<>>)
          /\ (wpc[w] = "start" /\ wpc'[w] # "start")
               => (wpc'[w] = "download" /\ invoked'[w] = <<"download">>)
       ]_vars

\* a task that failed in its first pass has been resumed and dequeued a
\* second time, and the worker that holds it, alone, is in the downloader
C20_Witness ==
  \E w \in Workers :
    /\ wpc[w] = "download"
    /\ invoked[w] = <<"download">>
    /\ ndeq[wtask[w]] = 2
    /\ error[wtask[w]] # NoError
    /\ status[wtask[w]] = "DOWNLOADING"
    /\ \A v \in Workers \ {w} : wtask[v] # wtask[w]

\* C21: once add_task has returned True for a task (its call is over and
\* the task is registered), the task is in the registry in every later
\* state, whatever its status; a task leaves the registry only in the
\* rollback of its own failed enqueue, which makes add_task return False.
C21_RegistryKeepsAcceptedTasks ==
  [][\A t \in Created :
       /\ (add_pc[t] = "returned" /\ t \in Range(tasks))
            => t \in Range(tasks')
       /\ (t \in Range(tasks) /\ t \notin Range(tasks'))
            => /\ add_pc[t] = "rollback"
               /\ add_pc'[t] = "returned"
               /\ add_result' = "full"]_vars

\* an accepted task has finished a pass and is still registered, after
\* another task was rolled back out of the registry
C21_Witness ==
  \E t \in Created :
    /\ add_pc[t] = "returned"
    /\ ndeq[t] > 0
    /\ status[t] \in {"COMPLETED", "FAILED", "CANCELLED"}
    /\ tasks = <<t>>
    /\ ntasks = 2
    /\ add_pc[3 - t] = "returned"
    /\ add_result = "full"

\* C25: a worker marks completion on the queue exactly once for every task
\* it dequeues, whether the pass succeeded, failed or raised: the queue's
\* count of unfinished items equals the number of queued tasks plus the
\* number of tasks workers are processing, and never goes below zero.
C25_TaskDoneOncePerDequeue ==
  /\ unfinished = Len(task_queue)
                  + Cardinality({w \in Workers : wpc[w] \in PassPcs})
  /\ unfinished >= 0

\* a worker is about to mark a failed pass done while another task waits
C25_Witness ==
  \E w \in Workers :
    /\ wpc[w] = "task_done"
    /\ status[wtask[w]] = "FAILED"
    /\ Len(task_queue) = 1
    /\ unfinished = 2

\* C24: an exception raised while a worker processes a task never ends the
\* worker thread: the failing stage leaves an error message, the worker
\* then writes FAILED, marks the task done and is back at the head of its
\* loop, which it leaves only when the shutdown event is set.
C24_WorkerSurvivesFailure ==
  /\ [][\A w \in Workers :
          /\ StageFailure(w)
               => (error'[wtask[w]] # NoError /\ wpc'[w] = "set_failed")
          /\ (wpc[w] = "set_failed" /\ wpc'[w] # "set_failed")
               => /\ status'[wtask[w]] = "FAILED"
                  /\ error[wtask[w]] # NoError
                  /\ wpc'[w] = "task_done"
          /\ (wpc[w] = "task_done" /\ wpc'[w] # "task_done")
               => wpc'[w] = "check"
          /\ (wpc[w] # "done" /\ wpc'[w] = "done")
               => (wpc[w] = "check" /\ shutdown_event)]_vars
  /\ \A w \in Workers : (wpc[w] = "set_failed") ~> (wpc[w] = "check")

\* a pass failed in its first stage, the worker has written FAILED and is
\* about to mark the task done, with the next task waiting in the queue
C24_Witness ==
  \E w \in Workers :
    /\ wpc[w] = "task_done"
    /\ invoked[w] = <<"download">>
    /\ status[wtask[w]] = "FAILED"
    /\ error[wtask[w]] # NoError
    /\ task_queue # <<>>
    /\ ~shutdown_event

\* C22: every write to a mutable field of a task (status, error, title,
\* stats, metadata, audio path, transcription metadata), by a stage
\* processor, the Manager or the UI, happens while the writing thread holds
\* that task's lock.
C22_WritesUnderTaskLock ==
  last_write # NoWrite => last_write.holder = last_write.by

\* C23: a request the API answers with 429 and a retry-after hint (as it
\* does for a request beyond the quota of the rate-limit window) is waited
\* out and sent again: when every answer is a 200, or a 429 whose re-sent
\* request is answered 200, no call of transcribe_chunk returns False and
\* transcribe_all does not return False.
C23_RateLimitNeverFails ==
  /\ \A i \in 1..Len(attempted) :
       responses[attempted[i].chunk].status = 429 => attempted[i].success
  /\ (\A k \in 0..(MaxChunks - 1) : responses[k].status # 500)
       => (transcribe_pc = "returned" => all_success)

\* C26: transcribe_all calls transcribe_chunk for every chunk of the
\* manifest, in the order of the manifest list, also after a chunk has
\* failed; it returns True exactly when every call returned True; and the
\* transcript saved for a chunk that succeeded stays as saved when another
\* chunk fails.
C26_EveryChunkAttempted ==
  /\ Len(attempted) <= Len(chunks_info)
  /\ \A i \in 1..Len(attempted) :
       /\ attempted[i].chunk = chunks_info[i].chunk_index
       /\ attempted[i].success
            => transcripts[attempted[i].chunk] =
                 saved_transcript(attempted[i].chunk,
                                  responses[attempted[i].chunk])
  /\ transcribe_pc = "returned"
       => /\ Len(attempted) = Len(chunks_info)
          /\ all_success <=> \A i \in 1..Len(attempted) : attempted[i].success

\* transcribe_all has returned False for three chunks: the first failed,
\* the second was still transcribed and its transcript is on disk
C26_Witness ==
  /\ transcribe_pc = "returned"
  /\ ~all_success
  /\ Len(attempted) = 3
  /\ ~attempted[1].success
  /\ attempted[2].success
  /\ transcripts[attempted[2].chunk].text = <<"a">>
  /\ ~transcripts[attempted[1].chunk].exists

\* C27: in split_audio a chunk whose extraction fails is skipped and the
\* chunks after it are still extracted: the manifest lists, in order, just
\* the chunks ffmpeg extracted.  split_audio returns no manifest exactly
\* when the duration probe failed, the manifest cannot be saved, or no
\* chunk was extracted.
C27_SplitFailsOnlyWithoutChunks ==
  /\ split_returned = "chunks"
       => /\ \A i \in 0..(num_chunks(source) - 1) :
               i \in source.ffmpeg_ok
                 <=> \E k \in 1..Len(chunks_info) :
                       chunks_info[k].chunk_index = i
          /\ \A k \in 1..Len(chunks_info) :
               /\ chunks_info[k].chunk_index \in 0..(num_chunks(source) - 1)
               /\ k > 1 => chunks_info[k - 1].chunk_index
                             < chunks_info[k].chunk_index
  /\ split_returned # "not_called"
       => (split_returned = "None"
             <=> \/ source.total_duration = NoDuration
                 \/ ~source.writable
                 \/ extracted_chunks(source) = <<>>)

\* of three chunks the second failed to extract: the manifest has the
\* first and the third
C27_Witness ==
  /\ split_returned = "chunks"
  /\ num_chunks(source) = 3
  /\ Len(chunks_info) = 2
  /\ chunks_info[1].chunk_index = 0
  /\ chunks_info[2].chunk_index = 2

\* the equal-split boundaries of chunk i, in milliseconds
planned_start_ms(i) == i * source.chunk_duration_sec * 1000
planned_end_ms(i) ==
  min((i + 1) * source.chunk_duration_sec, source.total_duration) * 1000

\* (duration / total_duration) * st_size > chunk_max_size_bytes, for a
\* duration in milliseconds
exceeds_cap(duration_ms) ==
  duration_ms * source.st_size
    > chunk_max_size_bytes * source.total_duration * 1000

\* C30: a chunk whose estimated size, (duration / total duration) * size of
\* the source file, exceeds the maximum chunk payload is shortened so that
\* its estimated size no longer exceeds the cap: it keeps its start and
\* only its end moves earlier.  A chunk whose estimate is within the cap
\* keeps its equal-split boundaries.
C30_ShrinkKeepsStart ==
  split_returned = "chunks"
    => \A k \in 1..Len(chunks_info) :
         LET c == chunks_info[k]
             i == c.chunk_index
         IN /\ c.start_ms = planned_start_ms(i)
            /\ c.duration_ms = c.end_ms - c.start_ms
            /\ IF exceeds_cap(planned_end_ms(i) - planned_start_ms(i))
                 THEN /\ c.end_ms < planned_end_ms(i)
                      /\ c.end_ms >= c.start_ms
                      /\ ~exceeds_cap(c.duration_ms)
                 ELSE c.end_ms = planned_end_ms(i)

\* a manifest with a shortened chunk after the first and a chunk that kept
\* its boundaries
C30_Witness ==
  /\ split_returned = "chunks"
  /\ \E k \in 1..Len(chunks_info) :
       /\ chunks_info[k].chunk_index > 0
       /\ chunks_info[k].end_ms < planned_end_ms(chunks_info[k].chunk_index)
       /\ chunks_info[k].duration_ms > 0
  /\ \E k \in 1..Len(chunks_info) :
       chunks_info[k].end_ms = planned_end_ms(chunks_info[k].chunk_index)

\* chunk k is in the manifest, its transcript file exists and its text is
\* not blank
Contributes(k) ==
  /\ \E j \in 1..Len(chunks_info) : chunks_info[j].chunk_index = k
  /\ transcripts[k].exists
  /\ strip(transcripts[k].text) # <<>>

\* the stripped texts of the contributing chunks k, k+1, ... in ascending
\* order of chunk index
RECURSIVE TextsFrom(_)
TextsFrom(k) ==
  IF k >= MaxChunks THEN <<>>
  ELSE (IF Contributes(k) THEN <<strip(transcripts[k].text)>> ELSE <<>>)
         \o TextsFrom(k + 1)

\* C28: merge processes the chunks in ascending chunk_index order,
\* whatever the order of the manifest list: the merged text is the
\* non-empty chunk texts joined by a blank line in that order, and the
\* merged segments come in that order too.
C28_MergeInIndexOrder ==
  \A i \in 1..Len(merge_runs) :
    merge_runs[i].returned
      => /\ merge_runs[i].text = join(TextsFrom(0))
         /\ \A j \in 1..Len(merge_runs[i].segments) :
              j > 1 => merge_runs[i].segments[j - 1].chunk
                         <= merge_runs[i].segments[j].chunk

\* a manifest listed in descending order whose first and last chunk have
\* different texts has been merged
C28_Witness ==
  /\ Len(chunks_info) = 3
  /\ chunks_info[1].chunk_index = 2
  /\ transcripts[0].text = <<"a">>
  /\ transcripts[1].exists
  /\ transcripts[2].text = <<" ", "a", " ", "b">>
  /\ merge_runs # <<>>
  /\ merge_runs[1].returned
  /\ merge_runs[1].text = <<"a", "\n", "\n", "a", " ", "b">>

\* the words of the contributing chunks k, k+1, ...
RECURSIVE WordsFrom(_)
WordsFrom(k) ==
  IF k >= MaxChunks THEN 0
  ELSE (IF Contributes(k) THEN word_count(strip(transcripts[k].text)) ELSE 0)
         + WordsFrom(k + 1)

\* C29: merge skips a chunk whose transcript file is missing and goes on
\* with the others.  It returns False, sets the task's error and records
\* no merged transcript path exactly when no chunk contributes non-empty
\* text; otherwise it returns True and records the location of the merged
\* text and the totals in the task.
C29_MergeFailsOnlyWithoutText ==
  \A i \in 1..Len(merge_runs) :
    /\ merge_runs[i].returned <=> \E k \in 0..(MaxChunks - 1) : Contributes(k)
    /\ ~merge_runs[i].returned
         => /\ task_metadata.error = Message
            /\ task_metadata.merged_transcript_path = NoPath
    /\ merge_runs[i].returned
         => /\ task_metadata.error = NoError
            /\ task_metadata.merged_transcript_path = "merged"
            /\ task_metadata.total_words = WordsFrom(0)
            /\ merge_runs[i].total_words = WordsFrom(0)

\* the transcript of the first chunk is missing, the second chunk has
\* text: merge returned True and recorded the merged transcript
C29_Witness ==
  /\ Len(chunks_info) >= 2
  /\ ~transcripts[0].exists
  /\ Contributes(1)
  /\ merge_runs # <<>>
  /\ merge_runs[1].returned
  /\ task_metadata.merged_transcript_path = "merged"
  /\ task_metadata.total_words > 0

\* C34: a task occurs at most once in the queue and is never in the queue
\* while a worker is processing it, for any interleaving of add_task,
\* cancel, resume_task and worker steps.
C34_QueuedOrProcessedOnce ==
  \A t \in Created :
    /\ Cardinality({i \in 1..Len(task_queue) : task_queue[i] = t}) <= 1
    /\ t \in Range(task_queue)
         => ~\E w \in Workers : wtask[w] = t /\ wpc[w] \in PassPcs

\* C38: a task whose status is COMPLETED carries no error, also when it
\* failed in an earlier pass and was resumed.
C38_CompletedHasNoError ==
  \A t \in Created : status[t] = "COMPLETED" => error[t] = NoError

\* C31: workers dequeue tasks in the order the tasks were enqueued: a put
\* adds its task behind the tasks that wait, and a get takes the task that
\* has waited longest, so of two waiting tasks the one enqueued first is
\* picked up first, with any number of workers.
C31_FifoDequeue ==
  [][/\ Len(task_queue') > Len(task_queue)
          => SubSeq(task_queue', 1, Len(task_queue)) = task_queue
     /\ Len(task_queue') < Len(task_queue)
          => /\ task_queue' = Tail(task_queue)
             /\ \E w \in Workers :
                  /\ wtask[w] = NoTask
                  /\ wtask'[w] = Head(task_queue)
     /\ \A w \in Workers :
          (wtask[w] = NoTask /\ wtask'[w] # NoTask)
            => (task_queue # <<>> /\ wtask'[w] = Head(task_queue))]_vars

\* of two tasks enqueued one after the other the first is in a worker's
\* hands, not yet started, and the second still waits
C31_Witness ==
  \E w \in Workers :
    /\ wtask[w] = 1
    /\ wpc[w] = "start"
    /\ task_queue = <<2>>
    /\ ndeq[1] = 1
    /\ ndeq[2] = 0

\* C32: the worker pool is started once: after the construction of the
\* Manager and any number of further start requests the number of worker
\* threads is max_workers, and a start request made when the pool is
\* started creates no thread.
C32_WorkersStartedOnce ==
  /\ workers_started <=> nstarts >= 1
  /\ nthreads = IF workers_started THEN max_workers ELSE 0
  /\ \A w \in Workers : workers_started <=> wpc[w] # "not_started"

\* a second start request has returned while a worker was inside a pass
C32_Witness ==
  /\ nstarts = 2
  /\ nthreads = max_workers
  /\ \E w \in Workers : wpc[w] \in ProcessPcs

Requests(th) ==
  IF next_step(th).op = "acquire" THEN next_step(th).lock ELSE "none"
Held(th) == {l \in Locks : lock_owner[l] = th}

\* C40: the Manager lock and the task locks never produce a lock deadlock:
\* a thread that holds a task's lock never requests the Manager lock, a
\* task lock is requested with nothing held but the Manager lock (so never
\* by its holder), the Manager lock with nothing held, and no set of
\* threads waits on each other's locks in a cycle.
C40_NoLockCycle ==
  /\ \A th \in LockThreads :
       /\ "task" \in Held(th) => Requests(th) # "manager"
       /\ Requests(th) = "task" => Held(th) \subseteq {"manager"}
       /\ Requests(th) = "manager" => Held(th) = {}
  /\ ~\E S \in SUBSET LockThreads :
        /\ S # {}
        /\ \A th \in S :
             /\ Requests(th) # "none"
             /\ lock_owner[Requests(th)] \in S

\* resume_task holds the Manager lock and the task's lock while the worker
\* waits for the task's lock and the reader for the Manager lock
C40_Witness ==
  /\ Held("ui") = {"manager", "task"}
  /\ Requests("worker") = "task"
  /\ Requests("reader") = "manager"

\* C39: when a task reaches COMPLETED, transcription_metadata.word_count
\* equals the total_words that merge computed from the chunk texts of that
\* pass, also after earlier passes: the count does not accumulate across
\* passes.
C39_WordCountIsMergeTotal ==
  PassCompleted => tm_word_count = task_metadata.total_words

\* C35: without shutdown(), under fair scheduling and with every stage
\* call returning, every task that add_task or resume_task put in the
\* queue is eventually dequeued by a worker, and a dequeued task
\* eventually reaches COMPLETED or FAILED.
C35_QueuedIsProcessed ==
  \A t \in 1..MaxTasks :
    /\ (t \in Range(task_queue))
         ~> (\E w \in Workers : wtask[w] = t /\ wpc[w] = "start")
    /\ (\E w \in Workers : wtask[w] = t /\ wpc[w] = "start")
         ~> (t \in Created /\ status[t] \in {"COMPLETED", "FAILED"})
    /\ (t \in Range(task_queue))
         ~> (t \in Created /\ status[t] \in {"COMPLETED", "FAILED"})

\* a task waits in the queue, put there by resume_task after a pass, while
\* both workers are inside passes over other work
C35_Witness ==
  \E t \in Created :
    /\ t \in Range(task_queue)
    /\ ndeq[t] >= 1
    /\ status[t] = "PENDING"

\* C36: a task accepted after shutdown() was called is not left
\* unprocessed: from the moment the stop signal is set, whenever add_task
\* or resume_task puts a task in the queue, some worker eventually
\* dequeues it.
C36_AcceptedAfterStopIsProcessed ==
  \A t \in 1..MaxTasks :
    [](shutdown_event /\ t \notin Range(task_queue)
         => []((t \in Range(task_queue))
                 => <>(\E w \in Workers : wtask[w] = t /\ wpc[w] = "start")))

\* C37: resume_task always returns: a call that waits for queue space
\* while holding the Manager lock eventually gets it and releases the
\* lock, also after the workers have been stopped.
C37_ResumeReturns == (lock # NoTask) ~> (lock = NoTask)

====
